---- MODULE Spec2Model ----
(***************************************************************************)
(* A model of jg-garmin-to-sheets: the Garmin field extractor              *)
(* (src/garmin_client.py), the monthly aggregator and the sync             *)
(* orchestrator (src/main.py), and the two destinations, the spreadsheet   *)
(* (src/sheets_client.py) and the Drive CSV files (src/drive_client.py).   *)
(*                                                                         *)
(* Python values are tagged records: None is JNull, an int is JNum(n), a   *)
(* float is JFloat(n, d) (the rational n/d, d > 0), a str is JStr(s), a    *)
(* dict is JDict(p) with p the sequence of its <<key, value>> pairs in      *)
(* insertion order, a list is JList(s), a GarminMetrics is GarminMetrics.  *)
(* Strings are TLA+ strings, built and taken apart character by character. *)
(***************************************************************************)
EXTENDS Integers, Sequences, FiniteSets, TLC

VARIABLES
    speed_ms,           \* _calculate_pace: the argument of the last call
    pace,               \* _calculate_pace: the string the last call returned
    daily_metrics_list, \* aggregate_monthly_metrics: the month's daily records
    monthly_avg,        \* aggregate_monthly_metrics: what it returned
    authenticated,      \* GarminClient._authenticated
    garmin,             \* get_metrics: what the requests of the day deliver
    current_date,       \* get_metrics: its argument
    garmin_metrics,     \* get_metrics: what it returned, or that it raised
    worksheets,         \* the spreadsheet: the worksheet of every tab
    metrics_list,       \* a client called on its own: the list of the last
                        \* call that writes records, None when it met an exception
    repeated,           \* update_metrics on its own: the last two calls had the
                        \* same list
    rows_before,        \* update_metrics on its own: the rows the tab had between
                        \* the two
    drive_file,         \* the Drive folder: the file update_csv writes
    pc,                 \* sync: where the run is
    today,              \* the day of the run
    start_date,         \* sync: the first day of the interval
    end_date,           \* sync: the last day of the interval
    output_type,        \* sync: 'sheets' or 'csv'
    metrics_to_write,   \* sync: the records fetched so far
    exit_code,          \* sync: 1 after sys.exit(1), 0 after a return
    csv_file,           \* the local file of the 'csv' output: its lines
    rerun,              \* sync: the run before this one returned and had the
                        \* same interval
    logged,             \* sync: the error or warning the run logged, None when
                        \* it logged none
    prune_arg,          \* prune_old_data on its own: days_to_keep when it was
                        \* the last call on the spreadsheet, None otherwise
    sheet_before,       \* prune_old_data on its own: the main tab before it
    gathered,           \* get_metrics: where each request of the day is, and
                        \* what the summary request delivered
    steps_request,      \* get_metrics: where the fallback request of the steps is
    monthly_pc,         \* cli_monthly_sync: where the run is
    month_args,         \* cli_monthly_sync: start_month, end_month, and the
                        \* month of the run
    months_to_process,  \* cli_monthly_sync: the months enumerated so far
    curr_month,         \* cli_monthly_sync: (curr_y, curr_m) of the enumeration
    month_index,        \* cli_monthly_sync: the months processed so far
    metrics_buffer      \* cli_monthly_sync: the monthly records to write

vars == <<speed_ms, pace, daily_metrics_list, monthly_avg,
          authenticated, garmin, current_date, garmin_metrics,
          worksheets, metrics_list, repeated, rows_before, drive_file,
          pc, today, start_date, end_date, output_type, metrics_to_write,
          exit_code, csv_file, rerun, logged, prune_arg, sheet_before,
          gathered, steps_request, monthly_pc, month_args, months_to_process,
          curr_month, month_index, metrics_buffer>>

paceVars == <<speed_ms, pace>>
aggVars == <<daily_metrics_list, monthly_avg>>
extractVars == <<authenticated, garmin, current_date, garmin_metrics>>
sheetVars == <<worksheets, metrics_list, repeated, rows_before>>
driveVars == <<drive_file>>
syncVars == <<pc, today, start_date, end_date, output_type, metrics_to_write,
              exit_code, csv_file, rerun, logged>>
pruneVars == <<prune_arg, sheet_before>>
fetchVars == <<gathered, steps_request>>
monthVars == <<monthly_pc, month_args, months_to_process, curr_month, month_index,
               metrics_buffer>>

----------------------------------------------------------------------------
(* Python values *)

JNull == [t |-> "null"]
JNum(n) == [t |-> "num", v |-> n]
JFloat(n, d) == [t |-> "float", n |-> n, d |-> d]
JStr(s) == [t |-> "str", v |-> s]
JDict(p) == [t |-> "dict", v |-> p]
JList(s) == [t |-> "list", v |-> s]

\* bool(x)
Truthy(x) ==
    CASE x.t = "null" -> FALSE
      [] x.t = "num" -> x.v # 0
      [] x.t = "float" -> x.n # 0
      [] x.t = "str" -> x.v # ""
      [] x.t = "dict" -> x.v # << >>
      [] x.t = "list" -> x.v # << >>
      [] OTHER -> TRUE

\* key in d, d.get(key, default), d.get(key), x or y
HasKey(d, key) == \E i \in 1..Len(d.v) : d.v[i][1] = key
GetOr(d, key, default) ==
    IF HasKey(d, key) THEN d.v[CHOOSE i \in 1..Len(d.v) : d.v[i][1] = key][2]
    ELSE default
Get(d, key) == GetOr(d, key, JNull)
Or(x, y) == IF Truthy(x) THEN x ELSE y
IsNumber(x) == x.t = "num" \/ x.t = "float"

\* a number as the fraction Numer / Denom, Denom > 0
Numer(x) == IF x.t = "float" THEN x.n ELSE x.v
Denom(x) == IF x.t = "float" THEN x.d ELSE 1

\* str(n) of an int 0 <= n, and format(n, "02d")
Pad2(n) == IF n < 10 THEN "0" \o ToString(n) ELSE ToString(n)

----------------------------------------------------------------------------
(* Reading a string back *)

DigitValue(c) ==
    CASE c = "0" -> 0 [] c = "1" -> 1 [] c = "2" -> 2 [] c = "3" -> 3
      [] c = "4" -> 4 [] c = "5" -> 5 [] c = "6" -> 6 [] c = "7" -> 7
      [] c = "8" -> 8 [] c = "9" -> 9 [] OTHER -> -1

CharAt(s, i) == SubSeq(s, i, i)

IsDigits(s) == Len(s) > 0 /\ \A i \in 1..Len(s) : DigitValue(CharAt(s, i)) >= 0

RECURSIVE IntOf(_)
IntOf(s) ==
    IF Len(s) = 0 THEN 0
    ELSE 10 * IntOf(SubSeq(s, 1, Len(s) - 1)) + DigitValue(CharAt(s, Len(s)))

\* the position of the first c in s, 0 when there is none
IndexOf(s, c) ==
    LET at == {i \in 1..Len(s) : CharAt(s, i) = c}
    IN  IF at = {} THEN 0 ELSE CHOOSE i \in at : \A j \in at : i <= j

ColonAt(s) == IndexOf(s, ":")

----------------------------------------------------------------------------
(* GarminClient._calculate_pace *)

\* a mutant: the seconds are rounded up to the next whole second
CalculatePaceCeil(s) ==
    IF ~Truthy(s) \/ Numer(s) <= 0 THEN ""
    ELSE LET p_min == (1000 * Denom(s)) \div (60 * Numer(s))
             p_sec == (((1000 * Denom(s)) \div Numer(s)) % 60) + 1
         IN  ToString(p_min) \o ":" \o Pad2(p_sec)

\* sec_per_km = 1000 / speed_ms; int(sec_per_km / 60); int(sec_per_km % 60)
CalculatePace(s) ==
    IF ~Truthy(s) \/ Numer(s) <= 0 THEN ""
    ELSE LET p_min == (1000 * Denom(s)) \div (60 * Numer(s))
             p_sec == ((1000 * Denom(s)) \div Numer(s)) % 60
         IN  ToString(p_min) \o ":" \o Pad2(p_sec)

----------------------------------------------------------------------------
(* GarminMetrics (config.py) *)

MetricAttrs ==
    {"date", "user_name", "user_age", "user_gender",
     "sleep_score", "sleep_length", "sleep_start_time", "sleep_end_time",
     "sleep_deep", "sleep_light", "sleep_rem", "sleep_awake", "sleep_need",
     "sleep_efficiency", "overnight_respiration", "overnight_pulse_ox",
     "overnight_hrv", "hrv_status",
     "weight", "bmi", "body_fat", "skeletal_muscle", "bone_mass", "body_water",
     "visceral_fat",
     "average_stress", "rest_stress_duration", "low_stress_duration",
     "medium_stress_duration", "high_stress_duration",
     "blood_pressure_systolic", "blood_pressure_diastolic",
     "active_calories", "resting_calories", "total_calories",
     "intensity_minutes", "steps", "floors_climbed", "resting_heart_rate",
     "vo2max_running", "vo2max_cycling", "seven_day_load",
     "lactate_threshold_bpm", "lactate_threshold_pace", "training_status",
     "body_battery_max", "body_battery_min", "activities"}

\* a datetime.date, as the number of its day
JDate(n) == [t |-> "date", v |-> n]

\* GarminMetrics(**kw): every field not given is None, activities is []
GarminMetrics(kw) ==
    [t |-> "obj",
     v |-> [a \in MetricAttrs |->
              IF a \in DOMAIN kw THEN kw[a]
              ELSE IF a = "activities" THEN JList(<< >>) ELSE JNull]]

\* getattr(m, a)
GetAttr(m, a) == m.v[a]

----------------------------------------------------------------------------
(* aggregate_monthly_metrics (main.py) *)

\* round(num / den) of Python 3: to the nearest integer, a tie to the even one
Round(num, den) ==
    LET q == num \div den
        r == num % den
    IN  IF 2 * r < den THEN q
        ELSE IF 2 * r > den THEN q + 1
        ELSE IF q % 2 = 0 THEN q ELSE q + 1

\* hh, mm = map(int, val.split(':')) as hh * 60 + mm; -1 for a ValueError
ParseTime(s) ==
    LET c == ColonAt(s)
    IN  IF c = 0 THEN -1
        ELSE LET hh == SubSeq(s, 1, c - 1)
                 mm == SubSeq(s, c + 1, Len(s))
             IN  IF IsDigits(hh) /\ IsDigits(mm)
                 THEN IntOf(hh) * 60 + IntOf(mm) ELSE -1

\* the minutes_list of get_avg_time
RECURSIVE MinutesList(_, _, _)
MinutesList(metrics, attr_name, is_start_time) ==
    IF metrics = << >> THEN << >>
    ELSE LET val == GetAttr(Head(metrics), attr_name)
             rest == MinutesList(Tail(metrics), attr_name, is_start_time)
             total_min == ParseTime(val.v)
         IN  IF val.t = "str" /\ Truthy(val) /\ ColonAt(val.v) > 0 /\ total_min >= 0
             THEN <<IF is_start_time /\ total_min < 12 * 60
                    THEN total_min + 24 * 60 ELSE total_min>> \o rest
             ELSE rest

RECURSIVE SumSeq(_)
SumSeq(q) == IF q = << >> THEN 0 ELSE Head(q) + SumSeq(Tail(q))

\* the tail of get_avg_time: the mean sum / n as HH:MM
FormatAvgTime(sum, n) ==
    LET norm == IF sum >= 24 * 60 * n THEN sum - 24 * 60 * n ELSE sum
        hh0 == norm \div (60 * n)
        mm0 == Round(norm % (60 * n), n)
        hh1 == IF mm0 = 60 THEN hh0 + 1 ELSE hh0
        avg_mm == IF mm0 = 60 THEN 0 ELSE mm0
        avg_hh == IF hh1 >= 24 THEN hh1 - 24 ELSE hh1
    IN  JStr(Pad2(avg_hh) \o ":" \o Pad2(avg_mm))

\* a mutant: the sleep start is averaged like any other time, without the shift
GetAvgTimeNoShift(metrics, attr_name, is_start_time) ==
    LET minutes_list == MinutesList(metrics, attr_name, FALSE)
    IN  IF minutes_list = << >> THEN JNull
        ELSE FormatAvgTime(SumSeq(minutes_list), Len(minutes_list))

GetAvgTime(metrics, attr_name, is_start_time) ==
    LET minutes_list == MinutesList(metrics, attr_name, is_start_time)
    IN  IF minutes_list = << >> THEN JNull
        ELSE FormatAvgTime(SumSeq(minutes_list), Len(minutes_list))

\* the values of get_avg: the field of every record that has one
RECURSIVE AvgValues(_, _)
AvgValues(metrics, attr_name) ==
    IF metrics = << >> THEN << >>
    ELSE (IF GetAttr(Head(metrics), attr_name).t = "null" THEN << >>
          ELSE <<GetAttr(Head(metrics), attr_name)>>) \o AvgValues(Tail(metrics), attr_name)

\* the least common denominator the values of get_avg are summed over
RECURSIVE DenomProduct(_)
DenomProduct(values) ==
    IF values = << >> THEN 1 ELSE Denom(Head(values)) * DenomProduct(Tail(values))

RECURSIVE NumerSum(_, _)
NumerSum(values, den) ==
    IF values = << >> THEN 0
    ELSE Numer(Head(values)) * (den \div Denom(Head(values)))
           + NumerSum(Tail(values), den)

\* round(mean(values), 2) if values else None; the mean of ints that is whole
\* stays an int
GetAvg(metrics, attr_name) ==
    LET values == AvgValues(metrics, attr_name)
        den == DenomProduct(values)
        sum == NumerSum(values, den)
        n == Len(values)
    IN  IF values = << >> THEN JNull
        ELSE IF den = 1 /\ sum % n = 0 THEN JNum(sum \div n)
        ELSE JFloat(Round(100 * sum, den * n), 100)

\* int(val) if val is not None else None: int() truncates towards zero
GetAvgInt(metrics, attr_name) ==
    LET val == GetAvg(metrics, attr_name)
    IN  IF val.t = "null" THEN JNull
        ELSE IF Numer(val) >= 0 THEN JNum(Numer(val) \div Denom(val))
        ELSE JNum(-((-Numer(val)) \div Denom(val)))

AvgAttrs ==
    {"sleep_score", "sleep_length", "sleep_efficiency", "sleep_deep",
     "sleep_light", "sleep_rem", "sleep_awake", "overnight_respiration",
     "overnight_pulse_ox", "weight", "bmi", "body_fat", "vo2max_running",
     "vo2max_cycling", "floors_climbed"}

AvgIntAttrs ==
    {"sleep_need", "blood_pressure_systolic", "blood_pressure_diastolic",
     "resting_heart_rate", "average_stress", "rest_stress_duration",
     "low_stress_duration", "medium_stress_duration", "high_stress_duration",
     "overnight_hrv", "lactate_threshold_bpm", "active_calories",
     "resting_calories", "intensity_minutes", "steps"}

\* None for no records, else the GarminMetrics of the averages
AggregateMonthlyMetrics(metrics, month_date) ==
    IF metrics = << >> THEN JNull
    ELSE GarminMetrics(
        [a \in AvgAttrs \cup AvgIntAttrs
               \cup {"date", "sleep_start_time", "sleep_end_time",
                     "lactate_threshold_pace", "training_status", "hrv_status",
                     "activities"} |->
            CASE a = "date" -> month_date
              [] a = "sleep_start_time" -> GetAvgTime(metrics, a, TRUE)
              [] a = "sleep_end_time" -> GetAvgTime(metrics, a, FALSE)
              [] a = "lactate_threshold_pace" -> GetAvgTime(metrics, a, FALSE)
              [] a \in {"training_status", "hrv_status"} -> JStr("Monthly Avg")
              [] a = "activities" -> JList(<< >>)
              [] a \in AvgAttrs -> GetAvg(metrics, a)
              [] a \in AvgIntAttrs -> GetAvgInt(metrics, a)])

----------------------------------------------------------------------------
(* GarminClient.get_metrics (garmin_client.py): the extraction of one day   *)
(* from the results of its fetches. A fetch that failed has the result      *)
(* None (safe_fetch, direct_fetch, _fetch_hrv_data).                        *)

\* date.isoformat(), the days being those of March 2024
IsoFormat(d) == "2024-03-" \o Pad2(d.v)

\* x / k
DivBy(x, k) == JFloat(Numer(x), Denom(x) * k)

\* section = section or {}; a list gives way to its first element
NormaliseSection(x) ==
    LET y == Or(x, JDict(<< >>))
    IN  IF y.t = "list" THEN y.v[1] ELSE y

\* datetime.fromtimestamp(ms / 1000).strftime('%H:%M'), the local time being
\* utc_offset minutes ahead of UTC
TimestampToClock(ms, utc_offset) ==
    LET minutes == ((Numer(ms) \div (1000 * Denom(ms))) \div 60 + utc_offset) % 1440
    IN  JStr(Pad2(minutes \div 60) \o ":" \o Pad2(minutes % 60))

\* lines 265-299: the body composition of the stats
StatsFields(stats, target_iso) ==
    LET empty == [raised |-> FALSE, weight |-> JNull, body_fat |-> JNull, bmi |-> JNull,
                  skeletal_muscle |-> JNull, bone_mass |-> JNull,
                  body_water |-> JNull, visceral_fat |-> JNull]
    IN  IF ~Truthy(stats) THEN empty
        ELSE
        LET listed == stats.t = "dict" /\ HasKey(stats, "dateWeightList")
            weight_list == IF listed THEN Get(stats, "dateWeightList") ELSE JList(<< >>)
            entries == IF weight_list.t = "list" THEN weight_list.v ELSE << >>
            hits == {i \in 1..Len(entries) :
                        /\ entries[i].t = "dict"
                        /\ Get(entries[i], "date") = JStr(target_iso)}
            hit == IF hits = {} THEN Len(entries) + 1
                   ELSE CHOOSE i \in hits : \A j \in hits : i <= j
            \* entry.get('date') of an entry that is no dict raises
            loop_raises == \E i \in 1..Len(entries) : i < hit /\ entries[i].t # "dict"
            current_stats ==
                IF listed
                THEN IF entries = << >> THEN JNull
                     ELSE IF hits # {} /\ Truthy(entries[hit]) THEN entries[hit]
                     ELSE entries[Len(entries)]
                ELSE IF stats.t = "dict" THEN stats
                ELSE IF stats.t = "list" /\ stats.v # << >> THEN stats.v[1]
                ELSE JNull
        IN  IF loop_raises THEN [empty EXCEPT !.raised = TRUE]
            ELSE IF ~Truthy(current_stats) THEN empty
            ELSE IF current_stats.t # "dict" THEN [empty EXCEPT !.raised = TRUE]
            ELSE [raised |-> FALSE,
                  weight |-> IF Truthy(Get(current_stats, "weight"))
                             THEN DivBy(Get(current_stats, "weight"), 1000) ELSE JNull,
                  body_fat |-> Get(current_stats, "bodyFat"),
                  bmi |-> Get(current_stats, "bmi"),
                  skeletal_muscle |-> IF Truthy(Get(current_stats, "muscleMass"))
                                      THEN DivBy(Get(current_stats, "muscleMass"), 1000)
                                      ELSE JNull,
                  bone_mass |-> IF Truthy(Get(current_stats, "boneMass"))
                                THEN DivBy(Get(current_stats, "boneMass"), 1000) ELSE JNull,
                  body_water |-> Get(current_stats, "bodyWater"),
                  visceral_fat |-> Get(current_stats, "visceralFat")]

\* readings.extend(batch) over the measurementSummaries
RECURSIVE NestedReadings(_)
NestedReadings(summaries) ==
    IF summaries = << >> THEN << >>
    ELSE LET item == Head(summaries)
             batch == IF item.t = "dict" /\ HasKey(item, "measurements")
                      THEN Get(item, "measurements") ELSE JNull
         IN  (IF batch.t = "list" THEN batch.v ELSE << >>)
                \o NestedReadings(Tail(summaries))

\* a mutant: a reading of 0 is among the values
RECURSIVE ReadingValuesWithZero(_, _)
ReadingValuesWithZero(readings, key) ==
    IF readings = << >> THEN << >>
    ELSE (IF Head(readings).t = "dict" /\ Get(Head(readings), key) # JNull
          THEN <<Numer(Get(Head(readings), key))>> ELSE << >>)
         \o ReadingValuesWithZero(Tail(readings), key)

\* [r[key] for r in readings if isinstance(r, dict) and r.get(key)]
RECURSIVE ReadingValues(_, _)
ReadingValues(readings, key) ==
    IF readings = << >> THEN << >>
    ELSE (IF Head(readings).t = "dict" /\ Truthy(Get(Head(readings), key))
          THEN <<Numer(Get(Head(readings), key))>> ELSE << >>)
         \o ReadingValues(Tail(readings), key)

\* int(round(mean(values))) if values else None
MeanRounded(values) ==
    IF values = << >> THEN JNull ELSE JNum(Round(SumSeq(values), Len(values)))

\* lines 301-328: the blood pressure of the day
BloodPressureFields(bp_payload) ==
    LET readings ==
            IF ~Truthy(bp_payload) THEN << >>
            ELSE IF bp_payload.t = "dict" /\ HasKey(bp_payload, "measurementSummaries")
            THEN LET summaries == Get(bp_payload, "measurementSummaries")
                 IN  IF summaries.t = "list" THEN NestedReadings(summaries.v) ELSE << >>
            ELSE IF bp_payload.t = "list" THEN bp_payload.v
            ELSE IF bp_payload.t = "dict" /\ HasKey(bp_payload, "userDailyBloodPressureDTOList")
            THEN LET dtos == Get(bp_payload, "userDailyBloodPressureDTOList")
                 IN  IF dtos.t = "list" THEN dtos.v ELSE << >>
            ELSE << >>
    IN  [blood_pressure_systolic |-> MeanRounded(ReadingValues(readings, "systolic")),
         blood_pressure_diastolic |-> MeanRounded(ReadingValues(readings, "diastolic"))]

\* a mutant: the fallback fetch is issued for a summary that is not there only
NeedsFallbackStepsOnFailure(summary) == ~Truthy(summary)

\* lines 330-340: the steps of the summary, else of the fallback fetch, which
\* is issued exactly when this needs its result
NeedsFallbackSteps(summary) ==
    ~Truthy(summary) \/ Get(summary, "totalSteps") = JNull

StepsField(summary, daily_steps_data) ==
    IF ~NeedsFallbackSteps(summary) THEN Get(summary, "totalSteps")
    ELSE IF daily_steps_data.t = "list" /\ daily_steps_data.v # << >>
            /\ daily_steps_data.v[1].t = "dict"
         THEN Get(daily_steps_data.v[1], "totalSteps")
         ELSE JNull

\* (sleep_dto.get(key) or 0) / 60
SleepPhase(sleep_dto, key) == DivBy(Or(Get(sleep_dto, key), JNum(0)), 60)

\* a mutant: the efficiency is the awake share
SleepEfficiencyAwake(sleep_time_seconds, awake_sec) ==
    JNum(Round(Numer(awake_sec) * Denom(sleep_time_seconds) * 100,
               Numer(sleep_time_seconds) * Denom(awake_sec)))

\* round(((sleep_time_seconds - awake_sec) / sleep_time_seconds) * 100)
SleepEfficiency(sleep_time_seconds, awake_sec) ==
    JNum(Round((Numer(sleep_time_seconds) * Denom(awake_sec)
                  - Numer(awake_sec) * Denom(sleep_time_seconds)) * 100,
               Numer(sleep_time_seconds) * Denom(awake_sec)))

\* lines 342-391: the sleep of the night
SleepFields(sleep_data, utc_offset) ==
    LET empty == [raised |-> FALSE, sleep_score |-> JNull, sleep_length |-> JNull,
                  sleep_need |-> JNull, sleep_efficiency |-> JNull,
                  sleep_start_time |-> JNull, sleep_end_time |-> JNull,
                  sleep_deep |-> JNull, sleep_light |-> JNull, sleep_rem |-> JNull,
                  sleep_awake |-> JNull, overnight_respiration |-> JNull,
                  overnight_pulse_ox |-> JNull]
    IN  IF ~Truthy(sleep_data) THEN empty
        ELSE
        LET sleep_dto == Or(Get(sleep_data, "dailySleepDTO"), sleep_data)
            scores == GetOr(sleep_dto, "sleepScores", JDict(<< >>))
            overall == IF scores.t = "dict" THEN GetOr(scores, "overall", JDict(<< >>))
                       ELSE JNull
            sleep_need_obj == Get(sleep_dto, "sleepNeed")
            sleep_time_seconds == Get(sleep_dto, "sleepTimeSeconds")
            start_ts_local == Get(sleep_dto, "sleepStartTimestampLocal")
            end_ts_local == Get(sleep_dto, "sleepEndTimestampLocal")
        IN  IF sleep_dto.t # "dict" \/ scores.t # "dict" \/ overall.t # "dict"
            THEN [empty EXCEPT !.raised = TRUE]
            ELSE [raised |-> FALSE,
                  sleep_score |-> Get(overall, "value"),
                  sleep_need |-> IF sleep_need_obj.t = "dict"
                                 THEN Get(sleep_need_obj, "actual") ELSE sleep_need_obj,
                  overnight_respiration |-> Get(sleep_dto, "averageRespirationValue"),
                  overnight_pulse_ox |-> Get(sleep_dto, "averageSpO2Value"),
                  sleep_length |-> IF Truthy(sleep_time_seconds)
                                   THEN JNum(Round(Numer(sleep_time_seconds),
                                                   60 * Denom(sleep_time_seconds)))
                                   ELSE JNull,
                  sleep_start_time |-> IF Truthy(start_ts_local)
                                       THEN TimestampToClock(start_ts_local, utc_offset)
                                       ELSE JNull,
                  sleep_end_time |-> IF Truthy(end_ts_local)
                                     THEN TimestampToClock(end_ts_local, utc_offset)
                                     ELSE JNull,
                  sleep_deep |-> SleepPhase(sleep_dto, "deepSleepSeconds"),
                  sleep_light |-> SleepPhase(sleep_dto, "lightSleepSeconds"),
                  sleep_rem |-> SleepPhase(sleep_dto, "remSleepSeconds"),
                  sleep_awake |-> SleepPhase(sleep_dto, "awakeSleepSeconds"),
                  sleep_efficiency |->
                      IF Truthy(sleep_time_seconds) /\ Numer(sleep_time_seconds) > 0
                      THEN SleepEfficiency(sleep_time_seconds,
                                           Or(Get(sleep_dto, "awakeSleepSeconds"), JNum(0)))
                      ELSE JNull]

\* a mutant: a day without heart rate variability makes the extraction raise
HrvFieldsRequired(hrv_payload) ==
    IF Truthy(hrv_payload) /\ hrv_payload.t = "dict" /\ HasKey(hrv_payload, "hrvSummary")
    THEN [raised |-> FALSE,
          overnight_hrv |-> Get(Get(hrv_payload, "hrvSummary"), "lastNightAvg"),
          hrv_status |-> Get(Get(hrv_payload, "hrvSummary"), "status")]
    ELSE [raised |-> TRUE, overnight_hrv |-> JNull, hrv_status |-> JNull]

\* lines 393-398: the heart rate variability of the night
HrvFields(hrv_payload) ==
    IF Truthy(hrv_payload) /\ hrv_payload.t = "dict" /\ HasKey(hrv_payload, "hrvSummary")
    THEN LET hrv_summary == Get(hrv_payload, "hrvSummary")
         IN  IF hrv_summary.t # "dict"
             THEN [raised |-> TRUE, overnight_hrv |-> JNull, hrv_status |-> JNull]
             ELSE [raised |-> FALSE,
                   overnight_hrv |-> Get(hrv_summary, "lastNightAvg"),
                   hrv_status |-> Get(hrv_summary, "status")]
    ELSE [raised |-> FALSE, overnight_hrv |-> JNull, hrv_status |-> JNull]

\* round(x, digits) of a float, scale being 10 ** digits
RoundTo(x, scale) == JFloat(Round(Numer(x) * scale, Denom(x)), scale)

\* int(x) if x else ""
IntOrEmpty(x) ==
    IF ~Truthy(x) THEN JStr("")
    ELSE IF Numer(x) >= 0 THEN JNum(Numer(x) \div Denom(x))
    ELSE JNum(-((-Numer(x)) \div Denom(x)))

\* the result of a fetch that raised
Raises == [t |-> "raise"]

ZeroZones == [z \in 1..5 |-> JNum(0)]

\* lines 442-447: the minutes in each zone, up to the entry that makes
\* z_secs / 60 raise
RECURSIVE ZoneMinutes(_, _)
ZoneMinutes(hr_zones, zones) ==
    IF hr_zones = << >> THEN zones
    ELSE LET z == Head(hr_zones)
             z_num == Get(z, "zoneNumber")
             z_secs == GetOr(z, "secsInZone", JNum(0))
         IN  IF z.t # "dict" THEN ZoneMinutes(Tail(hr_zones), zones)
             ELSE IF z_num.t = "num" /\ z_num.v \in 1..5
             THEN IF IsNumber(z_secs)
                  THEN ZoneMinutes(Tail(hr_zones),
                                   [zones EXCEPT ![z_num.v] = RoundTo(DivBy(z_secs, 60), 100)])
                  ELSE zones
             ELSE ZoneMinutes(Tail(hr_zones), zones)

\* lines 433-449: hr is the outcome of get_activity_hr_in_timezones (first)
\* and of the hrTimeInZones request made when the first is None (second)
HrZoneMinutes(hr) ==
    LET hr_zones == IF hr.first = JNull THEN hr.second ELSE hr.first
    IN  IF hr_zones.t = "list" THEN ZoneMinutes(hr_zones.v, ZeroZones) ELSE ZeroZones

\* act_start_local.split(' ')[1][:5] if ' ' in act_start_local else ""
StartTimeOf(act_start_local) ==
    IF ~Truthy(act_start_local) \/ IndexOf(act_start_local.v, " ") = 0 THEN ""
    ELSE LET s == act_start_local.v
             rest == SubSeq(s, IndexOf(s, " ") + 1, Len(s))
             word == IF IndexOf(rest, " ") = 0 THEN rest
                     ELSE SubSeq(rest, 1, IndexOf(rest, " ") - 1)
         IN  IF Len(word) > 5 THEN SubSeq(word, 1, 5) ELSE word

\* lines 412-419: the pace of dur_min over dist_km
ActivityPace(dist_km, dur_min) ==
    IF Numer(dist_km) > 0 /\ Numer(dur_min) > 0
    THEN LET a == Numer(dur_min) * Denom(dist_km)
             b == Denom(dur_min) * Numer(dist_km)
         IN  ToString(a \div b) \o ":" \o Pad2(((a % b) * 60) \div b)
    ELSE ""

\* lines 404-473: the entry of one activity; dropped is for an exception of
\* the parsing (line 475)
ActivityEntry(activity, hr, target_iso) ==
    LET atype == GetOr(activity, "activityType", JDict(<< >>))
        dist_km == DivBy(Or(Get(activity, "distance"), JNum(0)), 1000)
        dur_min == DivBy(Or(Get(activity, "duration"), JNum(0)), 60)
        elev_gain == Get(activity, "elevationGain")
        zones == HrZoneMinutes(hr)
    IN  IF atype.t # "dict" THEN [dropped |-> TRUE, entry |-> JNull]
        ELSE [dropped |-> FALSE, entry |-> JDict(<<
            <<"Activity ID", Get(activity, "activityId")>>,
            <<"Date (YYYY-MM-DD)", JStr(target_iso)>>,
            <<"Start Time (HH:MM)", JStr(StartTimeOf(Get(activity, "startTimeLocal")))>>,
            <<"Activity Type", GetOr(atype, "typeKey", JStr("Unknown"))>>,
            <<"Activity Name", Get(activity, "activityName")>>,
            <<"Distance (km)", IF Truthy(dist_km) THEN RoundTo(dist_km, 100) ELSE JNum(0)>>,
            <<"Duration (min)", IF Truthy(dur_min) THEN RoundTo(dur_min, 10) ELSE JNum(0)>>,
            <<"Avg Pace (min/km)", JStr(ActivityPace(dist_km, dur_min))>>,
            <<"Avg HR (bpm)", IntOrEmpty(Get(activity, "averageHR"))>>,
            <<"Max HR (bpm)", IntOrEmpty(Get(activity, "maxHR"))>>,
            <<"Total Calories (kcal)", IntOrEmpty(Get(activity, "calories"))>>,
            <<"Elevation Gain (m)", IntOrEmpty(elev_gain)>>,
            <<"Total Ascent (m)", IntOrEmpty(elev_gain)>>,
            <<"Total Descent (m)", IntOrEmpty(Get(activity, "elevationLoss"))>>,
            <<"Average Grade Adjusted Pace (min/km)",
              JStr(CalculatePace(Get(activity, "avgGradeAdjustedSpeed")))>>,
            <<"Aerobic TE (0-5.0)", Get(activity, "aerobicTrainingEffect")>>,
            <<"Anaerobic TE (0-5.0)", Get(activity, "anaerobicTrainingEffect")>>,
            <<"Avg Power (Watts)",
              IntOrEmpty(Or(Get(activity, "avgPower"), Get(activity, "averageRunningPower")))>>,
            <<"Garmin Training Effect Label", Or(Get(activity, "trainingEffectLabel"), JStr(""))>>,
            <<"HR Zone 1 (min)", zones[1]>>, <<"HR Zone 2 (min)", zones[2]>>,
            <<"HR Zone 3 (min)", zones[3]>>, <<"HR Zone 4 (min)", zones[4]>>,
            <<"HR Zone 5 (min)", zones[5]>> >>)]

\* lines 400-477: processed_activities; hr_zones[i] is the outcome of the
\* zone requests of the i-th activity
RECURSIVE ProcessedActivities(_, _, _, _)
ProcessedActivities(activities, hr_zones, i, target_iso) ==
    IF i > Len(activities) THEN << >>
    ELSE LET activity == activities[i]
             one == ActivityEntry(activity, hr_zones[i], target_iso)
         IN  (IF activity.t # "dict" \/ one.dropped THEN << >> ELSE <<one.entry>>)
                \o ProcessedActivities(activities, hr_zones, i + 1, target_iso)

\* int(round(x / 60)) if x is not None
StressMinutes(x) == IF x = JNull THEN JNull ELSE JNum(Round(Numer(x), 60 * Denom(x)))

\* (moderate or 0) + 2 * (vigorous or 0)
IntensityMinutes(summary) ==
    JNum(Numer(Or(Get(summary, "moderateIntensityMinutes"), JNum(0)))
          + 2 * Numer(Or(Get(summary, "vigorousIntensityMinutes"), JNum(0))))

\* lines 259-263 and 479-514: the fields of the summary
SummaryFields(summary) ==
    IF ~Truthy(summary)
    THEN [body_battery_max |-> JNull, body_battery_min |-> JNull,
          active_calories |-> JNull, resting_calories |-> JNull,
          intensity_minutes |-> JNull, resting_heart_rate |-> JNull,
          average_stress |-> JNull, rest_stress_duration |-> JNull,
          low_stress_duration |-> JNull, medium_stress_duration |-> JNull,
          high_stress_duration |-> JNull, floors_climbed |-> JNull]
    ELSE LET raw_floors == Or(Get(summary, "floorsAscended"), Get(summary, "floorsClimbed"))
         IN [body_battery_max |-> Get(summary, "bodyBatteryHighestValue"),
             body_battery_min |-> Get(summary, "bodyBatteryLowestValue"),
             active_calories |-> Get(summary, "activeKilocalories"),
             resting_calories |-> Get(summary, "bmrKilocalories"),
             intensity_minutes |-> IntensityMinutes(summary),
             resting_heart_rate |-> Get(summary, "restingHeartRate"),
             average_stress |-> Get(summary, "averageStressLevel"),
             rest_stress_duration |-> StressMinutes(Get(summary, "restStressDuration")),
             low_stress_duration |-> StressMinutes(Get(summary, "lowStressDuration")),
             medium_stress_duration |-> StressMinutes(Get(summary, "mediumStressDuration")),
             high_stress_duration |-> StressMinutes(Get(summary, "highStressDuration")),
             floors_climbed |-> IF IsNumber(raw_floors)
                                THEN JNum(Round(Numer(raw_floors), Denom(raw_floors)))
                                ELSE raw_floors]

\* lines 522-527: the latest lactate threshold
LactateDirect(lactate_data) ==
    LET has(key) == Truthy(lactate_data) /\ lactate_data.t = "dict" /\ HasKey(lactate_data, key)
    IN  [lactate_bpm |-> IF has("heartRate") THEN Get(lactate_data, "heartRate") ELSE JNull,
         lactate_pace |-> IF has("speed")
                          THEN JStr(CalculatePace(Get(lactate_data, "speed"))) ELSE JNull]

\* the 'value' of the last entry of a range, JNull when it has none
LastValue(range) ==
    IF range.t = "list" /\ range.v # << >> /\ range.v[Len(range.v)].t = "dict"
    THEN Get(range.v[Len(range.v)], "value")
    ELSE JNull

\* lines 529-535
LactateBpmOfRange(lactate_bpm, lactate_range_hr) ==
    IF ~Truthy(lactate_bpm) /\ IsNumber(LastValue(lactate_range_hr))
    THEN IF Truthy(LastValue(lactate_range_hr))
         THEN IntOrEmpty(LastValue(lactate_range_hr)) ELSE JNum(0)
    ELSE lactate_bpm

\* lines 537-546
LactatePaceOfRange(lactate_pace, lactate_range_speed) ==
    LET value == LastValue(lactate_range_speed)
    IN  IF ~Truthy(lactate_pace) /\ IsNumber(value) /\ Numer(value) > 0
        THEN JStr(CalculatePace(IF Numer(value) < Denom(value)
                                THEN JFloat(10 * Numer(value), Denom(value))
                                ELSE value))
        ELSE lactate_pace

\* mr_vo2[sport].get('vo2MaxValue') if mr_vo2.get(sport)
Vo2Max(mr_vo2, sport) ==
    IF Truthy(Get(mr_vo2, sport)) THEN Get(Get(mr_vo2, sport), "vo2MaxValue") ELSE JNull

\* lines 548-562: the training status; lactate_bpm is the threshold found
\* so far
TrainingFields(training_status_std, lactate_bpm) ==
    LET empty == [raised |-> FALSE, vo2max_running |-> JNull, vo2max_cycling |-> JNull,
                  training_status |-> JNull, lactate_threshold_bpm |-> lactate_bpm]
    IN  IF ~Truthy(training_status_std) THEN empty
        ELSE
        LET mr_vo2 == GetOr(training_status_std, "mostRecentVO2Max", JDict(<< >>))
            mr_ts == GetOr(training_status_std, "mostRecentTrainingStatus", JDict(<< >>))
            ts_data == GetOr(mr_ts, "latestTrainingStatusData", JDict(<< >>))
            part(x) == ~Truthy(x) \/ x.t = "dict"
        IN  IF \/ training_status_std.t # "dict"
               \/ mr_vo2.t # "dict"
               \/ ~part(Get(mr_vo2, "generic")) \/ ~part(Get(mr_vo2, "cycling"))
               \/ mr_ts.t # "dict"
               \/ ~part(ts_data)
               \/ (Truthy(ts_data) /\ ts_data.v[1][2].t # "dict")
            THEN [empty EXCEPT !.raised = TRUE]
            ELSE [raised |-> FALSE,
                  vo2max_running |-> Vo2Max(mr_vo2, "generic"),
                  vo2max_cycling |-> Vo2Max(mr_vo2, "cycling"),
                  training_status |->
                      IF Truthy(ts_data)
                      THEN Get(ts_data.v[1][2], "trainingStatusFeedbackPhrase")
                      ELSE JNull,
                  lactate_threshold_bpm |->
                      IF ~Truthy(lactate_bpm) /\ Truthy(mr_ts)
                            /\ HasKey(mr_ts, "lactateThresholdHeartRate")
                      THEN Get(mr_ts, "lactateThresholdHeartRate")
                      ELSE lactate_bpm]

\* the keys _find_training_load reads, in its order
LoadKeys == <<"dailyTrainingLoadAcute", "acuteLoad", "sevenDayLoad", "timeInZoneLoad">>

\* the values that are pushed on the stack, in order
Containers(values) == SelectSeq(values, LAMBDA x : x.t = "dict" \/ x.t = "list")

DictValues(d) == [i \in 1..Len(d.v) |-> d.v[i][2]]

\* lines 157-175: the loop of _find_training_load over its stack
RECURSIVE FindTrainingLoadLoop(_)
FindTrainingLoadLoop(stack) ==
    IF stack = << >> THEN JNull
    ELSE LET current == stack[Len(stack)]
             rest == SubSeq(stack, 1, Len(stack) - 1)
             found == {k \in 1..Len(LoadKeys) : Get(current, LoadKeys[k]) # JNull}
             first == CHOOSE k \in found : \A j \in found : k <= j
             load == Get(current, LoadKeys[first])
         IN  IF current.t = "dict"
             THEN IF found # {} THEN JNum(Round(Numer(load), Denom(load)))
                  ELSE FindTrainingLoadLoop(rest \o Containers(DictValues(current)))
             ELSE FindTrainingLoadLoop(rest \o Containers(current.v))

\* _find_training_load
FindTrainingLoad(data) == IF ~Truthy(data) THEN JNull ELSE FindTrainingLoadLoop(<<data>>)

\* lines 564-570
SevenDayLoad(training_status_modern, training_status_std, summary) ==
    LET modern == IF Truthy(training_status_modern)
                  THEN FindTrainingLoad(training_status_modern) ELSE JNull
        std == IF modern = JNull /\ Truthy(training_status_std)
               THEN FindTrainingLoad(training_status_std) ELSE modern
    IN  IF std = JNull /\ Truthy(summary) THEN FindTrainingLoad(summary) ELSE std

\* safe_fetch, direct_fetch and _fetch_hrv_data: None for a request that raised
SafeFetch(outcome) == IF outcome.t = "raise" THEN JNull ELSE outcome

\* get_metrics of an authenticated client: api holds the outcome of every
\* request of the day, user_full_name, user_age and user_gender of the client,
\* and the offset of the local time zone
GetMetrics(api, target_date) ==
    LET target_iso == IsoFormat(target_date)
        summary == NormaliseSection(SafeFetch(api.summary))
        sleep_data == NormaliseSection(SafeFetch(api.sleep_data))
        training_status_std == NormaliseSection(SafeFetch(api.training_status_std))
        training_status_modern == SafeFetch(api.training_status_modern)
        activities == SafeFetch(api.activities)
        of_summary == SummaryFields(summary)
        of_stats == StatsFields(SafeFetch(api.stats), target_iso)
        of_bp == BloodPressureFields(SafeFetch(api.bp_payload))
        of_sleep == SleepFields(sleep_data, api.utc_offset)
        of_hrv == HrvFields(SafeFetch(api.hrv_payload))
        direct == LactateDirect(SafeFetch(api.lactate_data))
        lactate_bpm == LactateBpmOfRange(direct.lactate_bpm, SafeFetch(api.lactate_range_hr))
        of_training == TrainingFields(training_status_std, lactate_bpm)
    IN  IF of_stats.raised \/ of_sleep.raised \/ of_hrv.raised \/ of_training.raised
        THEN GarminMetrics([date |-> target_date])
        ELSE GarminMetrics(
            [date |-> target_date,
             user_name |-> api.user_full_name,
             user_age |-> api.user_age,
             user_gender |-> api.user_gender,
             sleep_score |-> of_sleep.sleep_score,
             sleep_need |-> of_sleep.sleep_need,
             sleep_efficiency |-> of_sleep.sleep_efficiency,
             sleep_length |-> of_sleep.sleep_length,
             sleep_start_time |-> of_sleep.sleep_start_time,
             sleep_end_time |-> of_sleep.sleep_end_time,
             sleep_deep |-> of_sleep.sleep_deep,
             sleep_light |-> of_sleep.sleep_light,
             sleep_rem |-> of_sleep.sleep_rem,
             sleep_awake |-> of_sleep.sleep_awake,
             overnight_respiration |-> of_sleep.overnight_respiration,
             overnight_pulse_ox |-> of_sleep.overnight_pulse_ox,
             weight |-> of_stats.weight,
             bmi |-> of_stats.bmi,
             body_fat |-> of_stats.body_fat,
             skeletal_muscle |-> of_stats.skeletal_muscle,
             bone_mass |-> of_stats.bone_mass,
             body_water |-> of_stats.body_water,
             visceral_fat |-> of_stats.visceral_fat,
             blood_pressure_systolic |-> of_bp.blood_pressure_systolic,
             blood_pressure_diastolic |-> of_bp.blood_pressure_diastolic,
             resting_heart_rate |-> of_summary.resting_heart_rate,
             average_stress |-> of_summary.average_stress,
             rest_stress_duration |-> of_summary.rest_stress_duration,
             low_stress_duration |-> of_summary.low_stress_duration,
             medium_stress_duration |-> of_summary.medium_stress_duration,
             high_stress_duration |-> of_summary.high_stress_duration,
             body_battery_max |-> of_summary.body_battery_max,
             body_battery_min |-> of_summary.body_battery_min,
             overnight_hrv |-> of_hrv.overnight_hrv,
             hrv_status |-> of_hrv.hrv_status,
             vo2max_running |-> of_training.vo2max_running,
             vo2max_cycling |-> of_training.vo2max_cycling,
             seven_day_load |-> SevenDayLoad(training_status_modern, training_status_std, summary),
             lactate_threshold_bpm |-> of_training.lactate_threshold_bpm,
             lactate_threshold_pace |->
                 LactatePaceOfRange(direct.lactate_pace, SafeFetch(api.lactate_range_speed)),
             training_status |-> of_training.training_status,
             active_calories |-> of_summary.active_calories,
             resting_calories |-> of_summary.resting_calories,
             intensity_minutes |-> of_summary.intensity_minutes,
             steps |-> StepsField(summary, SafeFetch(api.daily_steps_data)),
             floors_climbed |-> of_summary.floors_climbed,
             activities |-> JList(IF activities.t = "list"
                                  THEN ProcessedActivities(activities.v, api.hr_zones, 1, target_iso)
                                  ELSE << >>)])

----------------------------------------------------------------------------
(* The header table (config.py) *)

HEADERS ==
    <<"Date", "Sleep Score", "Sleep Length (mins)", "Garmin Overnight HRV (ms)",
      "Garmin HRV Status", "Overnight Resting Heart Rate (bpm)", "Body Battery Max",
      "Body Battery Min", "Training Status", "VO2 Max Running", "Steps",
      "Active Calories", "Resting Calories", "Total Calories (kcal)", "Weight (kg)">>

HeaderAttributes ==
    JDict(<<
      <<"Date", JStr("date")>>, <<"User Name", JStr("user_name")>>,
      <<"User Age", JStr("user_age")>>, <<"User Gender", JStr("user_gender")>>,
      <<"Sleep Score", JStr("sleep_score")>>,
      <<"Sleep Length (mins)", JStr("sleep_length")>>,
      <<"Sleep Length (min)", JStr("sleep_length")>>,
      <<"Sleep Need (mins)", JStr("sleep_need")>>,
      <<"Sleep Need (min)", JStr("sleep_need")>>,
      <<"Overnight Breathing Rate (breaths per minute)", JStr("overnight_respiration")>>,
      <<"Sleep Start Time", JStr("sleep_start_time")>>,
      <<"Sleep End Time", JStr("sleep_end_time")>>,
      <<"Deep Sleep (min)", JStr("sleep_deep")>>,
      <<"Light Sleep (min)", JStr("sleep_light")>>,
      <<"REM Sleep (min)", JStr("sleep_rem")>>,
      <<"Awake Time (min)", JStr("sleep_awake")>>,
      <<"Garmin Overnight HRV (ms)", JStr("overnight_hrv")>>,
      <<"Overnight HRV (ms)", JStr("overnight_hrv")>>,
      <<"Garmin HRV Status", JStr("hrv_status")>>,
      <<"Overnight Resting Heart Rate (bpm)", JStr("resting_heart_rate")>>,
      <<"Overnight Resting HR (bpm)", JStr("resting_heart_rate")>>,
      <<"Weight (kg)", JStr("weight")>>, <<"BMI", JStr("bmi")>>,
      <<"Body Fat (%)", JStr("body_fat")>>,
      <<"Skeletal Muscle Mass (kg)", JStr("skeletal_muscle")>>,
      <<"Bone Mass (kg)", JStr("bone_mass")>>, <<"Body Water (%)", JStr("body_water")>>,
      <<"Visceral Fat Rating", JStr("visceral_fat")>>,
      <<"Average Stress", JStr("average_stress")>>,
      <<"Avg Stress Score", JStr("average_stress")>>,
      <<"Rest Stress Duration (min)", JStr("rest_stress_duration")>>,
      <<"Low Stress Duration (min)", JStr("low_stress_duration")>>,
      <<"Medium Stress Duration (min)", JStr("medium_stress_duration")>>,
      <<"High Stress Duration (min)", JStr("high_stress_duration")>>,
      <<"Today's Minimum Body Battery", JStr("body_battery_min")>>,
      <<"Today's Maximum Body Battery", JStr("body_battery_max")>>,
      <<"Daily Min Body Battery (0-100)", JStr("body_battery_min")>>,
      <<"Daily Max Body Battery (0-100)", JStr("body_battery_max")>>,
      <<"Systolic (mmHg)", JStr("blood_pressure_systolic")>>,
      <<"Diastolic (mmHg)", JStr("blood_pressure_diastolic")>>,
      <<"Systolic Blood Pressure (mmHg)", JStr("blood_pressure_systolic")>>,
      <<"Diastolic Blood Pressure (mmHg)", JStr("blood_pressure_diastolic")>>,
      <<"Active Calories", JStr("active_calories")>>,
      <<"Resting Calories", JStr("resting_calories")>>,
      <<"Total Calories (kcal)", JStr("total_calories")>>,
      <<"Intensity Minutes", JStr("intensity_minutes")>>,
      <<"Daily Intensity Minutes", JStr("intensity_minutes")>>,
      <<"Steps", JStr("steps")>>, <<"Daily Steps", JStr("steps")>>,
      <<"Floors Climbed", JStr("floors_climbed")>>,
      <<"Daily Floors Climbed", JStr("floors_climbed")>>,
      <<"VO2 Max (ml/kg/min)", JStr("vo2max_running")>>,
      <<"Lactate Threshold Heart Rate (bpm)", JStr("lactate_threshold_bpm")>>,
      <<"Lactate Threshold Pace (min / km)", JStr("lactate_threshold_pace")>>,
      <<"Lactate Threshold Pace (min/km)", JStr("lactate_threshold_pace")>>,
      <<"Garmin Training Load (7-Day Sum)", JStr("seven_day_load")>>,
      <<"Garmin Training Load (7 Day Sum)", JStr("seven_day_load")>>,
      <<"Body Battery Max", JStr("body_battery_max")>>,
      <<"Body Battery Min", JStr("body_battery_min")>>,
      <<"Training Status", JStr("training_status")>>,
      <<"Garmin Training Status", JStr("training_status")>>,
      <<"VO2 Max Running", JStr("vo2max_running")>> >>)

\* the dict, and its get(h)
HEADER_TO_ATTRIBUTE_MAP ==
    [h \in {HeaderAttributes.v[i][1] : i \in 1..Len(HeaderAttributes.v)} |->
        Get(HeaderAttributes, h)]

AttributeOf(h) ==
    IF h \in DOMAIN HEADER_TO_ATTRIBUTE_MAP THEN HEADER_TO_ATTRIBUTE_MAP[h] ELSE JNull

----------------------------------------------------------------------------
(* _update_sheet_generic (sheets_client.py) *)

\* the digits of r / d after the point, at most k of them
RECURSIVE FractionDigits(_, _, _)
FractionDigits(r, d, k) ==
    IF r = 0 \/ k = 0 THEN ""
    ELSE ToString((10 * r) \div d) \o FractionDigits((10 * r) % d, d, k - 1)

\* str(x) of an int, a float (to 16 places), a str and a date
PyStr(x) ==
    CASE x.t = "num" -> ToString(x.v)
      [] x.t = "float" ->
            LET a == IF x.n < 0 THEN -x.n ELSE x.n
            IN  (IF x.n < 0 THEN "-" ELSE "") \o ToString(a \div x.d) \o "."
                  \o (IF a % x.d = 0 THEN "0" ELSE FractionDigits(a % x.d, x.d, 16))
      [] x.t = "str" -> x.v
      [] x.t = "date" -> IsoFormat(x)

\* str(val) if val is not None else ""
Cell(val) == IF val # JNull THEN PyStr(val) ELSE ""

\* lines 81-85: the row of a GarminMetrics under the headers
MetricRow(headers, item) ==
    [i \in 1..Len(headers) |->
        LET attr == AttributeOf(headers[i])
        IN  IF Truthy(attr) /\ attr.v \in MetricAttrs THEN Cell(GetAttr(item, attr.v)) ELSE ""]

\* d[key] = value of a dict: a new key goes last, an old one keeps its place
DictPut(pairs, key, value) ==
    IF \E i \in 1..Len(pairs) : pairs[i][1] = key
    THEN [i \in 1..Len(pairs) |-> IF pairs[i][1] = key THEN <<key, value>> ELSE pairs[i]]
    ELSE Append(pairs, <<key, value>>)

\* lines 76-92: new_data_map, the rows to write by their date
RECURSIVE NewDataMap(_, _, _)
NewDataMap(headers, data_rows, is_metric_object) ==
    IF data_rows = << >> THEN << >>
    ELSE LET item == data_rows[Len(data_rows)]
             before == NewDataMap(headers, SubSeq(data_rows, 1, Len(data_rows) - 1),
                                  is_metric_object)
         IN  IF is_metric_object
             THEN DictPut(before, IsoFormat(GetAttr(item, "date")), MetricRow(headers, item))
             ELSE DictPut(before, item[1].v, [i \in 1..Len(item) |-> Cell(item[i])])

\* a mutant: no existing row is found
ExistingRowNever(existing_values, date_key) == 0

\* a mutant: the row position is the index of the data row plus 1
ExistingRowAbove(existing_values, date_key) ==
    LET at == {p \in 2..Len(existing_values) : existing_values[p][1] = date_key}
    IN  IF at = {} THEN 0 ELSE (CHOOSE p \in at : \A q \in at : q <= p) - 1

\* lines 97-102: existing_map[date_key][0], the sheet row that has the key
\* in its first cell (the last one of them), 0 when no data row has it
ExistingRow(existing_values, date_key) ==
    LET at == {p \in 2..Len(existing_values) : existing_values[p][1] = date_key}
    IN  IF at = {} THEN 0 ELSE CHOOSE p \in at : \A q \in at : q <= p

\* worksheet.update of the range A{row_idx}: the values take the place of
\* the first cells of the row
WriteRow(rows, row_idx, values) ==
    [p \in 1..(IF Len(rows) > row_idx THEN Len(rows) ELSE row_idx) |->
        IF p = row_idx
        THEN values \o (IF p <= Len(rows) /\ Len(rows[p]) > Len(values)
                        THEN SubSeq(rows[p], Len(values) + 1, Len(rows[p])) ELSE << >>)
        ELSE IF p <= Len(rows) THEN rows[p] ELSE << >>]

\* a mutant: every update is written one row below its range
RECURSIVE BatchUpdateBelow(_, _)
BatchUpdateBelow(rows, updates) ==
    IF updates = << >> THEN rows
    ELSE BatchUpdateBelow(WriteRow(rows, Head(updates)[1] + 1, Head(updates)[2]),
                          Tail(updates))

\* worksheet.batch_update(updates)
RECURSIVE BatchUpdate(_, _)
BatchUpdate(rows, updates) ==
    IF updates = << >> THEN rows
    ELSE BatchUpdate(WriteRow(rows, Head(updates)[1], Head(updates)[2]), Tail(updates))

\* a worksheet that is not there, and one with its rows of cells
NoWorksheet == [t |-> "missing"]
Worksheet(rows) == [t |-> "sheet", rows |-> rows]

\* the calls of the spreadsheet API at which _update_sheet_generic can get
\* an exception: opening the worksheet, update of the headers, get_all_values,
\* append_rows (an exception of batch_update leaves the worksheet as one of
\* get_all_values does)
FailPoints == {"none", "open", "header", "read", "append"}

\* lines 62-149: the worksheet after _update_sheet_generic, which logs an
\* exception of the API and returns
UpdateSheetGeneric(worksheet, headers, data_rows, is_metric_object, fail_at) ==
    LET created == IF worksheet.t = "missing" THEN << >> ELSE worksheet.rows
        existing_values == WriteRow(created, 1, headers)
        new_data_map == NewDataMap(headers, data_rows, is_metric_object)
        found(kv) == ExistingRow(existing_values, kv[1]) # 0
        missed(kv) == ExistingRow(existing_values, kv[1]) = 0
        hits == SelectSeq(new_data_map, found)
        updates == [i \in 1..Len(hits) |->
                        <<ExistingRow(existing_values, hits[i][1]), hits[i][2]>>]
        misses == SelectSeq(new_data_map, missed)
        rows_to_append == [i \in 1..Len(misses) |-> misses[i][2]]
        updated == BatchUpdate(existing_values, updates)
    IN  CASE fail_at = "open" -> worksheet
          [] fail_at = "header" -> Worksheet(created)
          [] fail_at = "read" -> Worksheet(existing_values)
          [] fail_at = "append" /\ rows_to_append # << >> -> Worksheet(updated)
          [] OTHER -> Worksheet(updated \o rows_to_append)

\* lines 62-149: a call with records meets the exception of the API at
\* fail_at; an append_rows that is not called, every date of the records
\* having its row, raises nothing
MeetsException(worksheet, data_rows, fail_at) ==
    LET existing_values == IF worksheet.t = "missing" THEN << >> ELSE worksheet.rows
    IN  /\ fail_at # "none"
        /\ fail_at = "append" =>
              \E i \in 1..Len(data_rows) :
                  ExistingRow(existing_values, IsoFormat(GetAttr(data_rows[i], "date"))) = 0

\* the tabs of the spreadsheet
TabNames ==
    {"Daily Summaries", "Sleep Logs", "Body Composition Data", "Blood Pressure Data",
     "Stress Data", "Activities", "Activity Summaries"}

\* update_metrics
UpdateMetricsSheet(sheets, metrics_list_arg, fail_at) ==
    [sheets EXCEPT !["Daily Summaries"] =
        UpdateSheetGeneric(@, HEADERS, metrics_list_arg, TRUE, fail_at)]

\* the headers of the activities tab (sheets_client.py names ACTIVITIES_HEADERS
\* what config.py defines as ACTIVITY_HEADERS)
ACTIVITY_HEADERS ==
    <<"Activity ID", "Date (YYYY-MM-DD)", "Start Time (HH:MM)", "Activity Type",
      "Distance (km)", "Duration (min)", "Avg Pace (min/km)",
      "Average Grade Adjusted Pace (min/km)", "Avg HR (bpm)", "Max HR (bpm)",
      "Total Ascent (m)", "Total Descent (m)", "Aerobic TE (0-5.0)",
      "Anaerobic TE (0-5.0)", "Avg Power (Watts)", "Garmin Training Effect Label",
      "HR Zone 1 (min)", "HR Zone 2 (min)", "HR Zone 3 (min)", "HR Zone 4 (min)",
      "HR Zone 5 (min)">>

\* update_activity_summary, lines 230-239: a row per activity of every record
RECURSIVE ActivityRows(_)
ActivityRows(metrics_list_arg) ==
    IF metrics_list_arg = << >> THEN << >>
    ELSE LET acts == GetAttr(Head(metrics_list_arg), "activities").v
         IN  [a \in 1..Len(acts) |->
                [c \in 1..Len(ACTIVITY_HEADERS) |->
                   Cell(GetOr(acts[a], ACTIVITY_HEADERS[c], JStr("")))]]
             \o ActivityRows(Tail(metrics_list_arg))

\* lines 247-297: the worksheet after _update_sheet_activities_custom, which
\* writes the headers to a worksheet it creates only, and logs an exception
\* of the API and returns
UpdateSheetActivitiesCustom(worksheet, rows, fail_at) ==
    LET existing_values == IF worksheet.t = "missing" THEN <<ACTIVITY_HEADERS>>
                           ELSE worksheet.rows
        found(new_row) == ExistingRow(existing_values, new_row[1]) # 0
        missed(new_row) == ExistingRow(existing_values, new_row[1]) = 0
        hits == SelectSeq(rows, found)
        updates == [i \in 1..Len(hits) |->
                        <<ExistingRow(existing_values, hits[i][1]), hits[i]>>]
        rows_to_append == SelectSeq(rows, missed)
        updated == BatchUpdate(existing_values, updates)
    IN  CASE fail_at = "open" -> worksheet
          [] fail_at = "header" /\ worksheet.t = "missing" -> Worksheet(<< >>)
          [] fail_at = "read" -> Worksheet(existing_values)
          [] fail_at = "append" /\ rows_to_append # << >> -> Worksheet(updated)
          [] OTHER -> Worksheet(updated \o rows_to_append)

\* update_activity_summary
UpdateActivitySummary(sheets, metrics_list_arg, fail_at) ==
    [sheets EXCEPT !["Activity Summaries"] =
        UpdateSheetActivitiesCustom(@, ActivityRows(metrics_list_arg), fail_at)]

\* prune_old_data: pass
PruneOldData(sheets, days_to_keep) == sheets

----------------------------------------------------------------------------
(* The builders of the other tabs (sheets_client.py) *)

SLEEP_HEADERS ==
    <<"Date", "Sleep Score", "Sleep Length (mins)", "Sleep Need (mins)",
      "Sleep Start Time", "Sleep End Time", "Deep Sleep (min)", "Light Sleep (min)",
      "REM Sleep (min)", "Awake Time (min)", "Garmin Overnight HRV (ms)",
      "Garmin HRV Status", "Overnight Resting Heart Rate (bpm)">>

\* the headers of the body tab (sheets_client.py names BODY_HEADERS what
\* config.py defines as BODY_COMP_HEADERS)
BODY_HEADERS ==
    <<"Date", "Weight (kg)", "BMI", "Body Fat (%)", "Skeletal Muscle Mass (kg)",
      "Bone Mass (kg)", "Body Water (%)", "Visceral Fat Rating">>

STRESS_HEADERS ==
    <<"Date", "Average Stress", "Rest Stress Duration (min)",
      "Low Stress Duration (min)", "Medium Stress Duration (min)",
      "High Stress Duration (min)", "Today's Minimum Body Battery",
      "Today's Maximum Body Battery", "Systolic Blood Pressure (mmHg)",
      "Diastolic Blood Pressure (mmHg)">>

BP_HEADERS == <<"Date", "Systolic (mmHg)", "Diastolic (mmHg)">>

\* a raw row: the date of the record, then the attributes named, "" for a
\* cell the builder leaves empty
RawRow(m, attrs) ==
    <<JStr(IsoFormat(GetAttr(m, "date")))>>
    \o [i \in 1..Len(attrs) |-> IF attrs[i] = "" THEN JStr("") ELSE GetAttr(m, attrs[i])]

\* update_sleep, lines 159-176
SleepRows(metrics_list_arg) ==
    [i \in 1..Len(metrics_list_arg) |->
        RawRow(metrics_list_arg[i],
               <<"sleep_score", "sleep_length", "sleep_start_time", "sleep_end_time",
                 "sleep_deep", "sleep_light", "sleep_rem", "sleep_awake", "",
                 "overnight_respiration", "overnight_pulse_ox">>)]

\* update_body_composition, lines 183-191
BodyRows(metrics_list_arg) ==
    [i \in 1..Len(metrics_list_arg) |->
        RawRow(metrics_list_arg[i], <<"weight", "bmi", "body_fat", "", "", "">>)]

\* update_blood_pressure, lines 196-204: a row for a record with a systolic
\* value
BloodPressureRows(metrics_list_arg) ==
    LET measured(m) == Truthy(GetAttr(m, "blood_pressure_systolic"))
        with_bp == SelectSeq(metrics_list_arg, measured)
    IN  [i \in 1..Len(with_bp) |->
            RawRow(with_bp[i],
                   <<"blood_pressure_systolic", "blood_pressure_diastolic", "", "">>)]

\* update_stress, lines 211-222
StressRows(metrics_list_arg) ==
    [i \in 1..Len(metrics_list_arg) |->
        RawRow(metrics_list_arg[i],
               <<"average_stress", "rest_stress_duration", "low_stress_duration",
                 "medium_stress_duration", "high_stress_duration", "body_battery_max",
                 "body_battery_min">>)]

\* the tabs of the builders, with the headers each of them passes on
BuilderTabs == {"Daily Summaries", "Sleep Logs", "Body Composition Data",
                "Blood Pressure Data", "Stress Data"}

HeadersOf(tab) ==
    CASE tab = "Daily Summaries" -> HEADERS
      [] tab = "Sleep Logs" -> SLEEP_HEADERS
      [] tab = "Body Composition Data" -> BODY_HEADERS
      [] tab = "Blood Pressure Data" -> BP_HEADERS
      [] tab = "Stress Data" -> STRESS_HEADERS

\* update_metrics, update_sleep, update_body_composition, update_blood_pressure
\* (which makes no call without a row) and update_stress
UpdateTab(sheets, tab, metrics_list_arg, fail_at) ==
    LET data_rows == CASE tab = "Daily Summaries" -> metrics_list_arg
                       [] tab = "Sleep Logs" -> SleepRows(metrics_list_arg)
                       [] tab = "Body Composition Data" -> BodyRows(metrics_list_arg)
                       [] tab = "Blood Pressure Data" -> BloodPressureRows(metrics_list_arg)
                       [] tab = "Stress Data" -> StressRows(metrics_list_arg)
    IN  IF tab = "Blood Pressure Data" /\ data_rows = << >> THEN sheets
        ELSE [sheets EXCEPT ![tab] =
                UpdateSheetGeneric(@, HeadersOf(tab), data_rows,
                                   tab = "Daily Summaries", fail_at)]

----------------------------------------------------------------------------
(* GoogleDriveClient (drive_client.py) *)

\* a pandas DataFrame: its columns and its rows of values, NaN being None
DataFrame(columns, data) == [columns |-> columns, data |-> data]

\* df.empty
DfEmpty(df) == df.columns = << >> \/ df.data = << >>

\* the position of a column, 0 when df has no such column
ColumnAt(df, name) ==
    IF \E c \in 1..Len(df.columns) : df.columns[c] = name
    THEN CHOOSE c \in 1..Len(df.columns) : df.columns[c] = name
    ELSE 0

\* _metrics_to_df: a row per record, a date as its isoformat
MetricsToDf(metrics, headers) ==
    DataFrame(IF metrics = << >> THEN << >> ELSE headers,
              [r \in 1..Len(metrics) |->
                 [c \in 1..Len(headers) |->
                    LET attr == AttributeOf(headers[c])
                        val == IF Truthy(attr) /\ attr.v \in MetricAttrs
                               THEN GetAttr(metrics[r], attr.v) ELSE JNull
                    IN  IF val.t = "date" THEN JStr(IsoFormat(val)) ELSE val]])

\* a file of the folder that is not there, and one with its lines of cells
NoFile == [t |-> "missing"]
CsvFile(rows) == [t |-> "file", rows |-> rows]

\* df.to_csv(index=False): the line of the columns, then a line per row, the
\* cells as text and NaN as nothing
ToCsv(df) ==
    <<df.columns>> \o [r \in 1..Len(df.data) |->
                         [c \in 1..Len(df.columns) |-> Cell(df.data[r][c])]]

\* pd.read_csv: the first line names the columns; an empty cell is NaN, a
\* column whose other cells are all digits is read as integers, any other
\* column as str
ReadCsv(rows) ==
    LET numeric(c) == \A r \in 2..Len(rows) : rows[r][c] = "" \/ IsDigits(rows[r][c])
    IN  DataFrame(rows[1],
                  [r \in 1..(Len(rows) - 1) |->
                     [c \in 1..Len(rows[1]) |->
                        LET text == rows[r + 1][c]
                        IN  IF text = "" THEN JNull
                            ELSE IF numeric(c) THEN JNum(IntOf(text))
                            ELSE JStr(text)]])

\* pd.concat([a, b]): the columns of a, then those only b has; the rows of a,
\* then those of b
Concat(a, b) ==
    LET only_b(h) == ColumnAt(a, h) = 0
        columns == a.columns \o SelectSeq(b.columns, only_b)
        rows_of(df) ==
            [r \in 1..Len(df.data) |->
               [c \in 1..Len(columns) |->
                  IF ColumnAt(df, columns[c]) = 0 THEN JNull
                  ELSE df.data[r][ColumnAt(df, columns[c])]]]
    IN  DataFrame(columns, rows_of(a) \o rows_of(b))

\* df.drop_duplicates(subset=[name], keep='last')
DropDuplicates(df, name) ==
    LET c == ColumnAt(df, name)
        last(r) == \A q \in (r + 1)..Len(df.data) : df.data[q][c] # df.data[r][c]
        kept == {r \in 1..Len(df.data) : last(r)}
        nth(i) == CHOOSE r \in kept : Cardinality({q \in kept : q < r}) = i - 1
    IN  DataFrame(df.columns, [i \in 1..Cardinality(kept) |-> df.data[nth(i)]])

\* ord(c) of the characters of an isoformat date
Ord(c) == IF c = "-" THEN 45 ELSE 48 + DigitValue(c)

\* a < b of two str
RECURSIVE StrLess(_, _)
StrLess(a, b) ==
    IF b = "" THEN FALSE
    ELSE IF a = "" THEN TRUE
    ELSE IF CharAt(a, 1) = CharAt(b, 1)
         THEN StrLess(SubSeq(a, 2, Len(a)), SubSeq(b, 2, Len(b)))
         ELSE Ord(CharAt(a, 1)) < Ord(CharAt(b, 1))

\* df.sort_values(by=name, ascending=False) of a column of str: the rows in
\* descending order, rows of equal value in an order the sort (quicksort,
\* not a stable one) is free to choose
SortValues(df, name) ==
    LET c == ColumnAt(df, name)
        n == Len(df.data)
        orders == {p \in [1..n -> 1..n] :
                     /\ \A i, j \in 1..n : p[i] = p[j] => i = j
                     /\ \A i \in 1..(n - 1) :
                            ~StrLess(df.data[p[i]][c].v, df.data[p[i + 1]][c].v)}
    IN  {DataFrame(df.columns, [i \in 1..n |-> df.data[p[i]]]) : p \in orders}

\* the requests of update_csv that can raise: the listing of the folder
\* (_get_file_id), the download and parsing of the file, the upload
DriveFailPoints == {"none", "list", "read", "upload"}

\* update_csv(filename, metrics, headers): the files it can leave. An
\* exception of the listing or of the upload goes to the caller; one of the
\* download or of read_csv is logged and the new rows replace the file.
UpdateCsv(file, metrics, headers, fail_at) ==
    LET new_df == MetricsToDf(metrics, headers)
        existing_df == ReadCsv(file.rows)
        combined_df ==
            IF file.t = "file" /\ fail_at # "read" /\ ColumnAt(existing_df, "Date") # 0
            THEN DropDuplicates(Concat(existing_df, new_df), "Date")
            ELSE new_df
        sorted == IF ColumnAt(combined_df, "Date") # 0
                  THEN SortValues(combined_df, "Date") ELSE {combined_df}
    IN  IF DfEmpty(new_df) \/ fail_at \in {"list", "upload"} THEN {file}
        ELSE {CsvFile(ToCsv(df)) : df \in sorted}

----------------------------------------------------------------------------
(* sync (main.py) *)

\* lines 257-261: the line csv.writer writes for a record, None as nothing
CsvRow(metric) ==
    [i \in 1..Len(HEADERS) |->
        LET attr == IF HEADERS[i] \in DOMAIN HEADER_TO_ATTRIBUTE_MAP
                    THEN HEADER_TO_ATTRIBUTE_MAP[HEADERS[i]].v ELSE ""
        IN  IF attr \in MetricAttrs THEN Cell(GetAttr(metric, attr)) ELSE ""]

\* lines 257-261: the file opened for appending gets the headers when it is
\* empty, then a line per record
AppendCsv(lines, metrics) ==
    lines \o (IF lines = << >> THEN <<HEADERS>> ELSE << >>)
          \o [i \in 1..Len(metrics) |-> CsvRow(metrics[i])]

\* what authenticate can do: return, raise MFARequiredException, raise
\* another exception
LoginOutcomes == {"ok", "mfa", "fails"}

\* what the 'sheets' branch can meet: no credentials file and none in the
\* environment (ensure_credentials_file_exists exits), an exception of the
\* GoogleSheetsClient constructor, or update_metrics with an API failure
SheetsOutcomes == {"credentials", "client"} \cup FailPoints

----------------------------------------------------------------------------
(* The state before any call *)

IdlePace == speed_ms = JNull /\ pace = "unset"

IdleAgg == daily_metrics_list = << >> /\ monthly_avg = JStr("unset")

IdleExtract ==
    /\ authenticated = FALSE
    /\ garmin = JNull
    /\ current_date = JNull
    /\ garmin_metrics = JStr("unset")

\* the rows of a worksheet, none for one that is not there
RowCount(worksheet) == IF worksheet.t = "missing" THEN 0 ELSE Len(worksheet.rows)

\* a spreadsheet without a tab
IdleSheet ==
    /\ worksheets = [tab \in TabNames |-> NoWorksheet]
    /\ metrics_list = JNull
    /\ repeated = FALSE
    /\ rows_before = 0

\* a folder without the file
IdleDrive == drive_file = NoFile

\* no run of sync
IdleSync ==
    /\ pc = "idle"
    /\ today = JNull
    /\ start_date = JNull
    /\ end_date = JNull
    /\ output_type = "sheets"
    /\ metrics_to_write = JNull
    /\ exit_code = JNull
    /\ csv_file = << >>
    /\ rerun = FALSE
    /\ logged = JNull

\* no call of prune_old_data
IdlePrune == prune_arg = JNull /\ sheet_before = NoWorksheet

\* the requests get_metrics gathers for a day
SectionRequests ==
    {"summary", "stats", "sleep_data", "hrv_payload", "bp_payload", "activities",
     "training_status_std", "training_status_modern", "lactate_data",
     "lactate_range_hr", "lactate_range_speed"}

\* no request of get_metrics
IdleFetch == gathered = [r \in SectionRequests |-> "unsent"] /\ steps_request = "unsent"

\* no run of cli_monthly_sync
IdleMonthly ==
    /\ monthly_pc = "idle"
    /\ month_args = JNull
    /\ months_to_process = << >>
    /\ curr_month = JNull
    /\ month_index = 0
    /\ metrics_buffer = << >>

----------------------------------------------------------------------------
(* Calls of _calculate_pace *)

MaxSpeedStep == 110

\* speeds in steps of 0.101 m/s, some not positive, and None
PaceInputs ==
    {JNull, JNum(0), JNum(3)} \cup {JFloat(101 * k, 1000) : k \in -2..MaxSpeedStep}

InitPace ==
    /\ IdlePace /\ IdleAgg /\ IdleExtract /\ IdleSheet /\ IdleDrive /\ IdleSync
    /\ IdlePrune /\ IdleFetch /\ IdleMonthly

CallCalculatePace ==
    \E s \in PaceInputs :
        /\ speed_ms' = s
        /\ pace' = CalculatePace(s)
        /\ UNCHANGED <<aggVars, extractVars, sheetVars, driveVars, syncVars, pruneVars,
                       fetchVars, monthVars>>

NextPace == CallCalculatePace

SpecPace == InitPace /\ [][NextPace]_vars

----------------------------------------------------------------------------
(* Calls of aggregate_monthly_metrics, on the daily records of one month *)

MaxMonthDays == 2

SleepStartTimes == {"23:50", "00:10", "23:59", "00:00", "11:59", "12:00", "21:15"}
SleepEndTimes == {"06:30", "23:59", "00:01"}

\* the records get_metrics returns for the days of the month, as far as the
\* clock times go
MonthDays ==
    {GarminMetrics([date |-> JDate(1), sleep_start_time |-> s, sleep_end_time |-> e]) :
        s \in {JNull} \cup {JStr(x) : x \in SleepStartTimes},
        e \in {JNull} \cup {JStr(x) : x \in SleepEndTimes}}

RECURSIVE SeqsUpTo(_, _)
SeqsUpTo(S, n) ==
    IF n = 0 THEN {<< >>}
    ELSE LET shorter == SeqsUpTo(S, n - 1)
         IN  shorter \cup {Append(q, x) : q \in shorter, x \in S}

InitAgg ==
    /\ IdlePace
    /\ IdleExtract
    /\ IdleSheet
    /\ IdleDrive
    /\ IdleSync
    /\ IdlePrune
    /\ IdleFetch
    /\ IdleMonthly
    /\ daily_metrics_list \in SeqsUpTo(MonthDays, MaxMonthDays)
    /\ monthly_avg = JStr("unset")

CallAggregateMonthlyMetrics ==
    /\ monthly_avg = JStr("unset")
    /\ monthly_avg' = AggregateMonthlyMetrics(daily_metrics_list, JDate(1))
    /\ UNCHANGED <<daily_metrics_list, paceVars, extractVars, sheetVars, driveVars,
                   syncVars, pruneVars, fetchVars, monthVars>>

NextAgg == CallAggregateMonthlyMetrics

SpecAgg == InitAgg /\ [][NextAgg]_vars

----------------------------------------------------------------------------
(* Calls of aggregate_monthly_metrics, on the numbers of the daily records *)

MaxAvgDays == 3

\* the records get_metrics returns for the days of the month, as far as
\* these numbers go: the steps, the weight and the highest body battery
NumberDays ==
    {GarminMetrics([date |-> JDate(1), steps |-> s, weight |-> w, body_battery_max |-> b]) :
        s \in {JNull, JNum(1), JNum(2)},
        w \in {JNull, JFloat(705, 10)},
        b \in {JNull, JNum(90)}}

InitMonth ==
    /\ IdlePace
    /\ IdleExtract
    /\ IdleSheet
    /\ IdleDrive
    /\ IdleSync
    /\ IdlePrune
    /\ IdleFetch
    /\ IdleMonthly
    /\ daily_metrics_list \in SeqsUpTo(NumberDays, MaxAvgDays)
    /\ monthly_avg = JStr("unset")

NextMonth == CallAggregateMonthlyMetrics

SpecMonth == InitMonth /\ [][NextMonth]_vars

----------------------------------------------------------------------------
(* Calls of get_metrics, on the payloads of one day *)

\* a request that delivers nothing: it raises, or returns None, {} or []
AbsentForms == {Raises, JNull, JDict(<< >>), JList(<< >>)}

\* the sleep payload of a night of sleep_time_seconds with awake_sec awake;
\* a JNull argument leaves the key out, detail adds the other keys (the
\* timestamps are 23:00 and 06:30 of the first days of the epoch)
SleepPayload(sleep_time_seconds, awake_sec, detail) ==
    JDict(<< <<"dailySleepDTO", JDict(
        (IF sleep_time_seconds = JNull THEN << >>
         ELSE << <<"sleepTimeSeconds", sleep_time_seconds>> >>)
        \o (IF awake_sec = JNull THEN << >> ELSE << <<"awakeSleepSeconds", awake_sec>> >>)
        \o (IF detail
            THEN << <<"sleepScores", JDict(<< <<"overall", JDict(<< <<"value", JNum(82)>> >>)>> >>)>>,
                    <<"sleepNeed", JDict(<< <<"actual", JNum(480)>> >>)>>,
                    <<"averageRespirationValue", JNum(14)>>,
                    <<"averageSpO2Value", JNum(96)>>,
                    <<"sleepStartTimestampLocal", JNum(82800000)>>,
                    <<"sleepEndTimestampLocal", JNum(109800000)>>,
                    <<"deepSleepSeconds", JNum(5400)>>,
                    <<"lightSleepSeconds", JNum(14400)>>,
                    <<"remSleepSeconds", JNum(4800)>> >>
            ELSE << <<"sleepWindowConfirmed", JNum(1)>> >>))>> >>)

\* the summary payload; the flags say which keys it carries
SummaryPayload(with_steps, with_intensity) ==
    JDict(
        (IF with_steps THEN << <<"totalSteps", JNum(8000)>> >> ELSE << >>)
        \o (IF with_intensity
            THEN << <<"moderateIntensityMinutes", JNum(30)>>,
                    <<"vigorousIntensityMinutes", JNum(10)>> >>
            ELSE << >>)
        \o << <<"bodyBatteryHighestValue", JNum(90)>>,
              <<"bodyBatteryLowestValue", JNum(20)>>,
              <<"activeKilocalories", JNum(500)>>,
              <<"bmrKilocalories", JNum(1700)>>,
              <<"restingHeartRate", JNum(52)>>,
              <<"averageStressLevel", JNum(31)>>,
              <<"restStressDuration", JNum(3600)>>,
              <<"lowStressDuration", JNum(1800)>>,
              <<"mediumStressDuration", JNum(900)>>,
              <<"highStressDuration", JNum(90)>>,
              <<"floorsAscended", JFloat(124, 10)>> >>)

\* a payload of every section for 2024-03-01
Present ==
    [summary |-> SummaryPayload(TRUE, TRUE),
     stats |-> JDict(<< <<"dateWeightList", JList(<<
                  JDict(<< <<"date", JStr("2024-02-29")>>, <<"weight", JNum(71000)>> >>),
                  JDict(<< <<"date", JStr("2024-03-01")>>, <<"weight", JNum(70500)>>,
                           <<"bodyFat", JFloat(185, 10)>>, <<"bmi", JFloat(223, 10)>>,
                           <<"muscleMass", JNum(33000)>>, <<"boneMass", JNum(3200)>>,
                           <<"bodyWater", JFloat(581, 10)>>, <<"visceralFat", JNum(7)>> >>) >>)>> >>),
     sleep_data |-> SleepPayload(JNum(25200), JNum(600), TRUE),
     hrv_payload |-> JDict(<< <<"hrvSummary", JDict(<< <<"lastNightAvg", JNum(45)>>,
                                                      <<"status", JStr("BALANCED")>> >>)>> >>),
     bp_payload |-> JDict(<< <<"measurementSummaries", JList(<<
                       JDict(<< <<"measurements", JList(<<
                           JDict(<< <<"systolic", JNum(120)>>, <<"diastolic", JNum(80)>> >>),
                           JDict(<< <<"systolic", JNum(125)>>, <<"diastolic", JNum(83)>> >>)
                       >>)>> >>) >>)>> >>),
     activities |-> JList(<<
         JDict(<< <<"activityId", JNum(101)>>, <<"activityName", JStr("Morning Run")>>,
                  <<"startTimeLocal", JStr("2024-03-01 07:30:00")>>,
                  <<"activityType", JDict(<< <<"typeKey", JStr("running")>> >>)>>,
                  <<"distance", JNum(5000)>>, <<"duration", JNum(1500)>>,
                  <<"averageHR", JNum(150)>>, <<"avgGradeAdjustedSpeed", JFloat(3333, 1000)>> >>),
         JDict(<< <<"activityId", JNum(102)>>, <<"activityName", JStr("Yoga")>> >>) >>),
     training_status_std |-> JDict(<<
         <<"mostRecentVO2Max", JDict(<<
              <<"generic", JDict(<< <<"vo2MaxValue", JNum(50)>> >>)>>,
              <<"cycling", JDict(<< <<"vo2MaxValue", JNum(48)>> >>)>> >>)>>,
         <<"mostRecentTrainingStatus", JDict(<<
              <<"latestTrainingStatusData", JDict(<<
                   <<"3401", JDict(<< <<"trainingStatusFeedbackPhrase", JStr("PRODUCTIVE_1")>>,
                                      <<"acuteTrainingLoadDTO",
                                        JDict(<< <<"dailyTrainingLoadAcute", JNum(350)>> >>)>> >>)>>
              >>)>>,
              <<"lactateThresholdHeartRate", JNum(165)>> >>)>> >>)]

\* a weight list with a null entry before the entry of 2024-03-01
NullEntryStats ==
    JDict(<< <<"dateWeightList", JList(<<
        JNull,
        JDict(<< <<"date", JStr("2024-03-01")>>, <<"weight", JNum(70500)>> >>) >>)>> >>)

\* the outcomes of the zone requests of the two activities
PresentHrZones ==
    << [first |-> JList(<< JDict(<< <<"zoneNumber", JNum(1)>>, <<"secsInZone", JNum(600)>> >>),
                           JDict(<< <<"zoneNumber", JNum(2)>>, <<"secsInZone", JNum(750)>> >>) >>),
        second |-> JNull],
       [first |-> Raises, second |-> JNull] >>

SectionNames ==
    {"summary", "stats", "sleep_data", "hrv_payload", "bp_payload", "activities",
     "training_status_std"}

\* the requests of a day of which those of failing deliver absent, the other
\* sections being those of sections
ApiOf(sections, failing, absent, daily_steps_data) ==
    [summary |-> IF "summary" \in failing THEN absent ELSE sections.summary,
     stats |-> IF "stats" \in failing THEN absent ELSE sections.stats,
     sleep_data |-> IF "sleep_data" \in failing THEN absent ELSE sections.sleep_data,
     hrv_payload |-> IF "hrv_payload" \in failing THEN absent ELSE sections.hrv_payload,
     bp_payload |-> IF "bp_payload" \in failing THEN absent ELSE sections.bp_payload,
     activities |-> IF "activities" \in failing THEN absent ELSE sections.activities,
     training_status_std |-> IF "training_status_std" \in failing THEN absent
                             ELSE sections.training_status_std,
     training_status_modern |-> JNull,
     lactate_data |-> JDict(<< <<"heartRate", JNum(170)>>, <<"speed", JFloat(35, 10)>> >>),
     lactate_range_hr |-> JNull,
     lactate_range_speed |-> JNull,
     daily_steps_data |-> daily_steps_data,
     hr_zones |-> PresentHrZones,
     utc_offset |-> 0,
     user_full_name |-> JStr("J G"),
     user_age |-> JNum(40),
     user_gender |-> JStr("male")]

\* what the fallback request of the steps delivers
StepsOutcomes == {Raises, JList(<< JDict(<< <<"totalSteps", JNum(7000)>> >>) >>)}

SleepTimes == {JNull, JNum(0), JNum(60), JNum(90), JNum(25200)}
AwakeTimes == {JNull, JNum(0), JNum(30), JNum(600)}

\* days of which some sections deliver nothing
SectionDays ==
    {ApiOf(Present, failing, absent, steps) :
        failing \in SUBSET SectionNames, absent \in AbsentForms, steps \in StepsOutcomes}

\* days with a sleep block of every length, the other sections as failing says
SleepDays ==
    {ApiOf([Present EXCEPT !.sleep_data = SleepPayload(t, a, detail)], failing, JNull, Raises) :
        t \in SleepTimes, a \in AwakeTimes, detail \in BOOLEAN,
        failing \in {{}, SectionNames \ {"sleep_data"}}}

\* days with a summary that lacks some keys
SummaryDays ==
    {ApiOf([Present EXCEPT !.summary = SummaryPayload(with_steps, with_intensity)],
           {}, JNull, steps) :
        with_steps \in BOOLEAN, with_intensity \in BOOLEAN, steps \in StepsOutcomes}

InitExtract ==
    /\ IdlePace
    /\ IdleAgg
    /\ authenticated \in BOOLEAN
    /\ garmin \in SectionDays \cup SleepDays \cup SummaryDays
    /\ current_date = JDate(1)
    /\ garmin_metrics = JStr("unset")
    /\ IdleSheet
    /\ IdleDrive
    /\ IdleSync
    /\ IdlePrune
    /\ IdleFetch
    /\ IdleMonthly

\* get_metrics: a client that is not authenticated logs in first, and the
\* call raises when that fails
CallGetMetrics ==
    /\ garmin_metrics = JStr("unset")
    /\ \E login \in {"ok", "fails"} :
          IF ~authenticated /\ login = "fails"
          THEN garmin_metrics' = Raises /\ UNCHANGED authenticated
          ELSE garmin_metrics' = GetMetrics(garmin, current_date) /\ authenticated' = TRUE
    /\ UNCHANGED <<garmin, current_date, paceVars, aggVars, sheetVars, driveVars,
                   syncVars, pruneVars, fetchVars, monthVars>>

NextExtract == CallGetMetrics

SpecExtract == InitExtract /\ [][NextExtract]_vars

----------------------------------------------------------------------------
(* Calls of get_metrics on payloads of an unexpected shape *)

\* what the sleep block holds under sleepScores: the scores, null, or scores
\* whose overall is null
SleepScoresForms ==
    {JDict(<< <<"overall", JDict(<< <<"value", JNum(82)>> >>)>> >>),
     JNull,
     JDict(<< <<"overall", JNull>> >>)}

\* the sleep payload with scores under sleepScores of its block
WithSleepScores(sleep_data, scores) ==
    JDict(<< <<"dailySleepDTO",
               JDict(DictPut(Get(sleep_data, "dailySleepDTO").v, "sleepScores", scores))>> >>)

\* a weight list with an entry that is a string before the entry of 2024-03-01
StringEntryStats ==
    JDict(<< <<"dateWeightList", JList(<<
        JStr("n/a"),
        JDict(<< <<"date", JStr("2024-03-01")>>, <<"weight", JNum(70500)>> >>) >>)>> >>)

WeightListForms == {Present.stats, NullEntryStats, StringEntryStats}

\* days of every section whose weight list and sleep scores have these shapes
ShapeDays ==
    {ApiOf([Present EXCEPT !.stats = stats,
                           !.sleep_data = WithSleepScores(SleepPayload(t, JNum(600), TRUE),
                                                          scores)],
           {}, JNull, steps) :
        stats \in WeightListForms, scores \in SleepScoresForms,
        t \in {JNum(60), JNum(90), JNum(25200)}, steps \in StepsOutcomes}

InitShape ==
    /\ IdlePace
    /\ IdleAgg
    /\ authenticated \in BOOLEAN
    /\ garmin \in ShapeDays
    /\ current_date = JDate(1)
    /\ garmin_metrics = JStr("unset")
    /\ IdleSheet
    /\ IdleDrive
    /\ IdleSync
    /\ IdlePrune
    /\ IdleFetch
    /\ IdleMonthly

NextShape == CallGetMetrics

SpecShape == InitShape /\ [][NextShape]_vars

----------------------------------------------------------------------------
(* Calls of get_metrics on training payloads of every nesting *)

\* the value a payload holds under a load key
LoadValue(key) ==
    CASE key = "dailyTrainingLoadAcute" -> JNum(350)
      [] key = "acuteLoad" -> JFloat(6805, 20)
      [] key = "sevenDayLoad" -> JNum(330)
      [] key = "timeInZoneLoad" -> JNum(320)

\* what a dict of the payload holds of the load keys: nothing, one of them,
\* the first of them as null, or the last and the first of them
LoadEntries ==
    {<< >>, << <<"dailyTrainingLoadAcute", JNull>> >>,
     << <<"timeInZoneLoad", LoadValue("timeInZoneLoad")>>,
        <<"dailyTrainingLoadAcute", LoadValue("dailyTrainingLoadAcute")>> >>}
    \cup {<< <<LoadKeys[k], LoadValue(LoadKeys[k])>> >> : k \in 1..Len(LoadKeys)}

\* the payloads: a dict that holds a list with a dict that holds a dict
LoadTrees ==
    {JDict(<< <<"userId", JNum(7)>> >> \o outer
           \o << <<"payload", JList(<< JStr("v2"),
                    JDict(middle \o << <<"acuteTrainingLoadDTO", JDict(inner)>> >>) >>)>> >>) :
        outer \in LoadEntries, middle \in LoadEntries, inner \in LoadEntries}

\* days whose modern training status is such a payload, the older one
\* delivering nothing
LoadDays ==
    {[ApiOf(Present, {"training_status_std"}, JNull, Raises)
        EXCEPT !.training_status_modern = tree] : tree \in LoadTrees}

InitLoad ==
    /\ IdlePace
    /\ IdleAgg
    /\ authenticated \in BOOLEAN
    /\ garmin \in LoadDays
    /\ current_date = JDate(1)
    /\ garmin_metrics = JStr("unset")
    /\ IdleSheet
    /\ IdleDrive
    /\ IdleSync
    /\ IdlePrune
    /\ IdleFetch
    /\ IdleMonthly

NextLoad == CallGetMetrics

SpecLoad == InitLoad /\ [][NextLoad]_vars

----------------------------------------------------------------------------
(* Calls of get_metrics on lactate payloads of both requests *)

\* the speeds the requests deliver, in m/s and in units of 10 m/s
LactateSpeeds == {JFloat(35, 10), JFloat(35, 100), JNum(4)}

\* what the request of the latest threshold delivers
LactateLatestForms ==
    {Raises, JNull, JDict(<< <<"heartRate", JNum(170)>> >>)}
    \cup {JDict(<< <<"heartRate", JNum(170)>>, <<"speed", speed>> >>) : speed \in LactateSpeeds}

\* an entry of a range, with the date it carries
RangeEntry(d, value) ==
    JDict(<< <<"calendarDate", JStr(IsoFormat(JDate(d)))>>, <<"value", value>> >>)

\* what a request of a range delivers for the first day: nothing, an entry of
\* the day, or one of the day before one of the day after it; the later entry
\* has the speed 3.2 or the heart rate 160
RangeForms(values, later) ==
    {Raises, JNull, JList(<< >>)}
    \cup {JList(<<RangeEntry(1, value)>>) : value \in values}
    \cup {JList(<<RangeEntry(1, value), RangeEntry(2, later)>>) : value \in values}

LactateDays ==
    {[ApiOf(Present, {"training_status_std"}, JNull, Raises)
        EXCEPT !.lactate_data = latest,
               !.lactate_range_hr = range_hr,
               !.lactate_range_speed = range_speed] :
        latest \in LactateLatestForms,
        range_hr \in RangeForms({JNum(168)}, JNum(160)),
        range_speed \in RangeForms(LactateSpeeds, JFloat(32, 10))}

InitLactate ==
    /\ IdlePace
    /\ IdleAgg
    /\ authenticated \in BOOLEAN
    /\ garmin \in LactateDays
    /\ current_date = JDate(1)
    /\ garmin_metrics = JStr("unset")
    /\ IdleSheet
    /\ IdleDrive
    /\ IdleSync
    /\ IdlePrune
    /\ IdleFetch
    /\ IdleMonthly

NextLactate == CallGetMetrics

SpecLactate == InitLactate /\ [][NextLactate]_vars

----------------------------------------------------------------------------
(* Calls of get_metrics on blood pressure payloads of the three shapes *)

MaxReadings == 2

\* a reading: its systolic and diastolic value may be missing, null or 0
ReadingForms ==
    {JDict(<< <<"systolic", systolic>>, <<"diastolic", diastolic>> >>) :
        systolic \in {JNull, JNum(0), JNum(120)}, diastolic \in {JNull, JNum(80)}}
    \cup {JDict(<< <<"systolic", JNum(125)>>, <<"diastolic", JNum(83)>> >>),
          JDict(<< <<"diastolic", JNum(80)>>, <<"pulse", JNum(60)>> >>)}

\* the payloads that hold the readings: a summary with all of them, a summary
\* for each of them, a flat list, and a dict with the list
PressureShapes(readings) ==
    {JDict(<< <<"measurementSummaries",
                JList(<< JDict(<< <<"measurements", JList(readings)>> >>) >>)>> >>),
     JDict(<< <<"measurementSummaries",
                JList([i \in 1..Len(readings) |->
                          JDict(<< <<"measurements", JList(<<readings[i]>>)>> >>)])>> >>),
     JList(readings),
     JDict(<< <<"userDailyBloodPressureDTOList", JList(readings)>> >>)}

PressureDays ==
    UNION {{ApiOf([Present EXCEPT !.bp_payload = bp_payload], {}, JNull, Raises) :
                bp_payload \in PressureShapes(readings)} :
            readings \in SeqsUpTo(ReadingForms, MaxReadings)}

InitPressure ==
    /\ IdlePace
    /\ IdleAgg
    /\ authenticated \in BOOLEAN
    /\ garmin \in PressureDays
    /\ current_date = JDate(1)
    /\ garmin_metrics = JStr("unset")
    /\ IdleSheet
    /\ IdleDrive
    /\ IdleSync
    /\ IdlePrune
    /\ IdleFetch
    /\ IdleMonthly

NextPressure == CallGetMetrics

SpecPressure == InitPressure /\ [][NextPressure]_vars

----------------------------------------------------------------------------
(* Calls of get_metrics on days whose zone requests fail *)

MaxActivities == 2

\* the entries of the raw activity list: a run, an activity without a type,
\* one whose type is null, and an entry that is no dict
RawActivityForms ==
    {JDict(<< <<"activityId", JNum(101)>>, <<"activityName", JStr("Morning Run")>>,
              <<"startTimeLocal", JStr("2024-03-01 07:30:00")>>,
              <<"activityType", JDict(<< <<"typeKey", JStr("running")>> >>)>>,
              <<"distance", JNum(5000)>>, <<"duration", JNum(1500)>> >>),
     JDict(<< <<"activityId", JNum(102)>>, <<"activityName", JStr("Yoga")>>,
              <<"duration", JNum(1800)>> >>),
     JDict(<< <<"activityId", JNum(103)>>, <<"activityType", JNull>>,
              <<"distance", JNum(3000)>>, <<"duration", JNum(1200)>> >>),
     JStr("n/a")}

\* the zones an activity has
ZoneList ==
    JList(<< JDict(<< <<"zoneNumber", JNum(1)>>, <<"secsInZone", JNum(600)>> >>),
             JDict(<< <<"zoneNumber", JNum(2)>>, <<"secsInZone", JNum(750)>> >>) >>)

\* the outcomes of the two zone requests of an activity: the second is made
\* when the first returns None
ZoneOutcomes ==
    {[first |-> ZoneList, second |-> JNull], [first |-> Raises, second |-> JNull],
     [first |-> JNull, second |-> ZoneList], [first |-> JNull, second |-> Raises]}

EnrichDays ==
    {[ApiOf([Present EXCEPT !.activities = JList(raw)], {}, JNull, Raises)
        EXCEPT !.hr_zones = zones] :
        raw \in SeqsUpTo(RawActivityForms, MaxActivities),
        zones \in [1..MaxActivities -> ZoneOutcomes]}

InitEnrich ==
    /\ IdlePace
    /\ IdleAgg
    /\ authenticated \in BOOLEAN
    /\ garmin \in EnrichDays
    /\ current_date = JDate(1)
    /\ garmin_metrics = JStr("unset")
    /\ IdleSheet
    /\ IdleDrive
    /\ IdleSync
    /\ IdlePrune
    /\ IdleFetch
    /\ IdleMonthly

NextEnrich == CallGetMetrics

SpecEnrich == InitEnrich /\ [][NextEnrich]_vars

----------------------------------------------------------------------------
(* Calls of update_metrics on the spreadsheet *)

MaxBatch == 2

\* the days of the records
SheetDays == {1, 2}

\* the records of the days as far as the main tab shows them, the steps of a
\* day being there or not
SheetRecords ==
    {GarminMetrics([date |-> JDate(d), steps |-> s]) :
        d \in SheetDays, s \in {JNull, JNum(8000)}}

\* the lists update_metrics is called with
MetricsLists == SeqsUpTo(SheetRecords, MaxBatch)

InitSheet ==
    /\ IdlePace
    /\ IdleAgg
    /\ IdleExtract
    /\ IdleSheet
    /\ IdleDrive
    /\ IdleSync
    /\ IdlePrune
    /\ IdleFetch
    /\ IdleMonthly

\* update_metrics(list), with what the caller sees of it: the list when the
\* call went through, whether it was the second call in a row with this list,
\* and then the rows the tab had before it; sheet_before is the main tab the
\* call found
CallUpdateMetrics ==
    \E list \in MetricsLists, fail_at \in FailPoints :
        LET again == metrics_list = JList(list) /\ fail_at = "none"
        IN  /\ worksheets' = UpdateMetricsSheet(worksheets, list, fail_at)
            /\ metrics_list' = IF fail_at = "none" THEN JList(list) ELSE JNull
            /\ repeated' = again
            /\ rows_before' = IF again THEN RowCount(worksheets["Daily Summaries"]) ELSE 0
            /\ prune_arg' = JNull
            /\ sheet_before' = worksheets["Daily Summaries"]
            /\ UNCHANGED <<paceVars, aggVars, extractVars, driveVars, syncVars,
                           fetchVars, monthVars>>

NextSheet == CallUpdateMetrics

SpecSheet == InitSheet /\ [][NextSheet]_vars

----------------------------------------------------------------------------
(* Calls of the builders of the tabs *)

\* the records the builders are called with: one with a value in every
\* column the tabs show, and one without a blood pressure
TabRecords ==
    LET full(d) == [date |-> JDate(d), sleep_score |-> JNum(80),
                    sleep_length |-> JNum(450), sleep_need |-> JNum(480),
                    sleep_start_time |-> JStr("22:30"), sleep_end_time |-> JStr("06:15"),
                    sleep_deep |-> JNum(90), sleep_light |-> JNum(240),
                    sleep_rem |-> JNum(100), sleep_awake |-> JNum(20),
                    overnight_respiration |-> JNum(14), overnight_pulse_ox |-> JNum(96),
                    overnight_hrv |-> JNum(55), hrv_status |-> JStr("BALANCED"),
                    resting_heart_rate |-> JNum(48),
                    weight |-> JFloat(705, 10), bmi |-> JFloat(45, 2),
                    body_fat |-> JFloat(35, 2),
                    average_stress |-> JNum(30), rest_stress_duration |-> JNum(400),
                    low_stress_duration |-> JNum(200), medium_stress_duration |-> JNum(60),
                    high_stress_duration |-> JNum(10),
                    body_battery_max |-> JNum(90), body_battery_min |-> JNum(20),
                    blood_pressure_systolic |-> JNum(120),
                    blood_pressure_diastolic |-> JNum(80)]
    IN  {GarminMetrics(full(1)),
         GarminMetrics([full(1) EXCEPT !.blood_pressure_systolic = JNull])}

\* a call of one builder with a list of one record or none; metrics_list is
\* the list when the call went through
CallUpdateTab ==
    \E tab \in BuilderTabs, list \in SeqsUpTo(TabRecords, 1), fail_at \in FailPoints :
        /\ worksheets' = UpdateTab(worksheets, tab, list, fail_at)
        /\ metrics_list' = IF fail_at = "none" THEN JList(list) ELSE JNull
        /\ UNCHANGED <<repeated, rows_before>>
        /\ UNCHANGED <<paceVars, aggVars, extractVars, driveVars, syncVars, pruneVars,
                       fetchVars, monthVars>>

NextTabs == CallUpdateTab

SpecTabs == InitSheet /\ [][NextTabs]_vars

----------------------------------------------------------------------------
(* Calls of update_metrics on a spreadsheet that rewrites its date cells *)

MaxCoercedRows == 2

\* what the spreadsheet can show of a date it was given as YYYY-MM-DD: the
\* text, the serial day number (days since 1899-12-30), or day/month/year
DateCellForms(day) ==
    {IsoFormat(day), PyStr(JNum(45351 + day.v)), Pad2(day.v) \o "/03/2024"}

\* the day a date cell shows, JNull when it shows none
ShownDay(cell) ==
    LET days == {d \in SheetDays : cell \in DateCellForms(JDate(d))}
    IN  IF days = {} THEN JNull ELSE JDate(CHOOSE d \in days : TRUE)

\* the spreadsheet shows the date cell of a data row of the main tab in another
\* form; get_all_values returns what it shows
CoerceDateCell ==
    LET worksheet == worksheets["Daily Summaries"]
    IN  /\ 2 <= RowCount(worksheet)
        /\ RowCount(worksheet) <= MaxCoercedRows
        /\ \E p \in 2..RowCount(worksheet) :
              /\ ShownDay(worksheet.rows[p][1]) # JNull
              /\ \E form \in DateCellForms(ShownDay(worksheet.rows[p][1])) :
                    /\ form # worksheet.rows[p][1]
                    /\ worksheets' = [worksheets EXCEPT !["Daily Summaries"] =
                           Worksheet([worksheet.rows EXCEPT ![p] = <<form>> \o Tail(@)])]
        /\ metrics_list' = JNull
        /\ repeated' = FALSE
        /\ rows_before' = 0
        /\ prune_arg' = JNull
        /\ sheet_before' = NoWorksheet
        /\ UNCHANGED <<paceVars, aggVars, extractVars, driveVars, syncVars,
                           fetchVars, monthVars>>

NextCoerce == CallUpdateMetrics \/ CoerceDateCell

SpecCoerce == InitSheet /\ [][NextCoerce]_vars

----------------------------------------------------------------------------
(* Calls of update_csv on a file of the Drive folder *)

\* the records of the days as far as the blood pressure file shows them; both
\* readings are there, so that every column holds integers or str only
DriveRecords ==
    {GarminMetrics([date |-> JDate(d),
                    blood_pressure_systolic |-> JNum(s),
                    blood_pressure_diastolic |-> JNum(b)]) :
        d \in SheetDays, s \in {120, 130}, b \in {80, 85}}

InitDrive ==
    /\ IdlePace
    /\ IdleAgg
    /\ IdleExtract
    /\ IdleSheet
    /\ IdleDrive
    /\ IdleSync
    /\ IdlePrune
    /\ IdleFetch
    /\ IdleMonthly

\* update_csv(filename, list, BP_HEADERS), with the list when no exception
\* came to the caller
CallUpdateCsv ==
    \E list \in SeqsUpTo(DriveRecords, MaxBatch), fail_at \in DriveFailPoints :
        \E file \in UpdateCsv(drive_file, list, BP_HEADERS, fail_at) :
            /\ drive_file' = file
            /\ metrics_list' = IF fail_at \in {"none", "read"} THEN JList(list) ELSE JNull
            /\ UNCHANGED <<worksheets, repeated, rows_before>>
            /\ UNCHANGED <<paceVars, aggVars, extractVars, syncVars, pruneVars,
                           fetchVars, monthVars>>

NextDrive == CallUpdateCsv

SpecDrive == InitDrive /\ [][NextDrive]_vars

----------------------------------------------------------------------------
(* Calls of update_activity_summary on the spreadsheet *)

\* the activity of a day as the activities request delivers it
ActivityPayload(d, distance) ==
    JDict(<< <<"activityId", JNum(10 + d)>>,
             <<"activityType", JDict(<< <<"typeKey", JStr("running")>> >>)>>,
             <<"startTimeLocal", JStr("2024-03-" \o Pad2(d) \o " 07:15:00")>>,
             <<"distance", JNum(distance)>>,
             <<"duration", JNum(1800)>>,
             <<"averageHR", JNum(150)>> >>)

\* the distances of the activity of a day: the one of the first day differs
\* between an earlier and a later fetch
DistancesOn(d) == IF d = 1 THEN {5000, 6000} ELSE {5000}

\* the records of the days with the ActivityEntry of their activity
ActivityRecords ==
    UNION {{GarminMetrics([date |-> JDate(d),
                           activities |-> JList(<<ActivityEntry(ActivityPayload(d, m),
                                                                PresentHrZones[1],
                                                                IsoFormat(JDate(d))).entry>>)]) :
              m \in DistancesOn(d)} : d \in SheetDays}

InitActivities ==
    /\ IdlePace
    /\ IdleAgg
    /\ IdleExtract
    /\ IdleSheet
    /\ IdleDrive
    /\ IdleSync
    /\ IdlePrune
    /\ IdleFetch
    /\ IdleMonthly

\* update_activity_summary(list) with one of the lists, and the list when the
\* call went through
UpdateActivitySummaryCall(lists) ==
    \E list \in lists, fail_at \in FailPoints :
        /\ worksheets' = UpdateActivitySummary(worksheets, list, fail_at)
        /\ metrics_list' = IF fail_at = "none" THEN JList(list) ELSE JNull
        /\ UNCHANGED <<repeated, rows_before>>
        /\ UNCHANGED <<paceVars, aggVars, extractVars, driveVars, syncVars, pruneVars,
                       fetchVars, monthVars>>

CallUpdateActivitySummary == UpdateActivitySummaryCall(SeqsUpTo(ActivityRecords, MaxBatch))

NextActivities == CallUpdateActivitySummary

SpecActivities == InitActivities /\ [][NextActivities]_vars

----------------------------------------------------------------------------
(* Calls of the two upserts, each on a spreadsheet the other has not written *)

MaxActivityBatch == 1

UpsertDaily ==
    /\ worksheets["Activity Summaries"] = NoWorksheet
    /\ CallUpdateMetrics

UpsertActivities ==
    /\ worksheets["Daily Summaries"] = NoWorksheet
    /\ UpdateActivitySummaryCall(SeqsUpTo(ActivityRecords, MaxActivityBatch))

NextUpsert == UpsertDaily \/ UpsertActivities

SpecUpsert == InitSheet /\ [][NextUpsert]_vars

----------------------------------------------------------------------------
(* Runs of sync *)

MaxSyncDay == 3
MaxCsvLines == 2

SyncDays == {JDate(d) : d \in 1..MaxSyncDay}

\* what the requests of a day deliver: every section, or a weight list whose
\* null entry makes the extraction raise
SyncApis ==
    {ApiOf(Present, {}, JNull, Raises),
     ApiOf([Present EXCEPT !.stats = NullEntryStats], {}, JNull, Raises)}

\* get_metrics of every day for everything the requests can deliver
DailyMetrics == [api \in SyncApis, target_date \in SyncDays |-> GetMetrics(api, target_date)]

\* the profile writes to the spreadsheet or to the local file; the run is on
\* the last of the days
InitSync ==
    /\ IdlePace
    /\ IdleAgg
    /\ IdleExtract
    /\ IdleSheet
    /\ IdleDrive
    /\ IdlePrune
    /\ IdleFetch
    /\ IdleMonthly
    /\ pc = "idle"
    /\ today = JDate(MaxSyncDay)
    /\ start_date = JNull
    /\ end_date = JNull
    /\ output_type \in {"sheets", "csv"}
    /\ metrics_to_write = JNull
    /\ exit_code = JNull
    /\ csv_file = << >>
    /\ rerun = FALSE
    /\ logged = JNull

\* a mutant: an exception of the spreadsheet API reaches sync
SheetsExitRaising(outcome) == IF outcome = "none" THEN 0 ELSE 1

\* lines 217-243 of sync: what the 'sheets' branch ends the run with;
\* ensure_credentials_file_exists and the except clauses around the client
\* exit with 1, and _update_sheet_generic lets no exception of the API out
SheetsExit(outcome) == IF outcome \in {"credentials", "client"} THEN 1 ELSE 0

\* lines 213-262 of sync: the dispatch of the records fetched
Dispatch(metrics) ==
    IF metrics = << >>
    THEN /\ pc' = "done" /\ exit_code' = JNum(0)
         /\ logged' = JStr("No metrics fetched. Nothing to write.")
         /\ UNCHANGED <<sheetVars, csv_file>>
    ELSE IF output_type = "sheets"
    THEN \E outcome \in SheetsOutcomes :
            /\ logged' =
                  CASE outcome = "credentials" ->
                          JStr("CRITICAL: 'credentials/client_secret.json' is missing")
                    [] outcome = "client" ->
                          JStr("An error occurred during Google Sheets operation")
                    [] MeetsException(worksheets["Daily Summaries"], metrics, outcome) ->
                          JStr("Error updating Daily Summaries")
                    [] OTHER -> JNull
            /\ worksheets' =
                  IF outcome \in {"credentials", "client"} THEN worksheets
                  ELSE PruneOldData(UpdateMetricsSheet(worksheets, metrics, outcome), 365)
            /\ IF SheetsExit(outcome) = 1
               THEN pc' = "exited" /\ exit_code' = JNum(1)
               ELSE pc' = "done" /\ exit_code' = JNum(0)
            /\ UNCHANGED <<metrics_list, repeated, rows_before, csv_file>>
    ELSE IF output_type = "csv"
    THEN /\ csv_file' = AppendCsv(csv_file, metrics)
         /\ pc' = "done" /\ exit_code' = JNum(0)
         /\ logged' = JNull
         /\ UNCHANGED sheetVars
    ELSE /\ pc' = "done" /\ exit_code' = JNum(0)
         /\ logged' = JNull
         /\ UNCHANGED <<sheetVars, csv_file>>

\* a mutant: the except clause of MFARequiredException logs and goes on
SyncProceedsPastMfa(login) == login # "fails"

\* lines 190-199 of sync: the run goes on to the fetch when authenticate
\* returned; both except clauses end it with sys.exit(1)
SyncProceeds(login) == login = "ok"

\* lines 189-204 of sync: a new client authenticates; the run exits with 1
\* when that raises, and with an empty interval it has nothing to write
SyncAuthenticate ==
    /\ pc \in {"idle", "done", "exited"}
    /\ Len(csv_file) <= MaxCsvLines
    /\ RowCount(worksheets["Daily Summaries"]) <= MaxCsvLines
    /\ \E from \in SyncDays, to \in SyncDays, login \in LoginOutcomes :
          /\ start_date' = from
          /\ end_date' = to
          /\ rerun' = (pc = "done" /\ start_date = from /\ end_date = to)
          /\ authenticated' = (login = "ok")
          /\ IF ~SyncProceeds(login)
             THEN /\ pc' = "exited" /\ exit_code' = JNum(1)
                  /\ logged' = JStr(IF login = "mfa"
                                    THEN "MFA required but cannot be entered in headless mode."
                                    ELSE "Authentication failed")
                  /\ metrics_to_write' = JNull
                  /\ UNCHANGED <<current_date, sheetVars, csv_file>>
             ELSE /\ metrics_to_write' = JList(<< >>)
                  /\ current_date' = from
                  /\ IF from.v <= to.v
                     THEN /\ pc' = "fetching" /\ exit_code' = JNull
                          /\ logged' = JNull
                          /\ UNCHANGED <<sheetVars, csv_file>>
                     ELSE Dispatch(<< >>)
    /\ UNCHANGED <<garmin, garmin_metrics, today, output_type>>
    /\ UNCHANGED <<paceVars, aggVars, driveVars, pruneVars, fetchVars, monthVars>>

\* a mutant: the loop goes on two days later
NextDaySkipping(day) == JDate(day.v + 2)

\* line 208 of sync: current_date += timedelta(days=1)
NextDay(day) == JDate(day.v + 1)

\* lines 205-210 of sync: get_metrics of the day; after the last day of the
\* interval the records are dispatched
SyncFetch ==
    /\ pc = "fetching"
    /\ \E api \in SyncApis :
          LET daily_metrics == DailyMetrics[api, current_date]
              metrics == Append(metrics_to_write.v, daily_metrics)
          IN  /\ garmin' = api
              /\ garmin_metrics' = daily_metrics
              /\ metrics_to_write' = JList(metrics)
              /\ current_date' = NextDay(current_date)
              /\ IF NextDay(current_date).v <= end_date.v
                 THEN UNCHANGED <<pc, exit_code, logged, sheetVars, csv_file>>
                 ELSE Dispatch(metrics)
    /\ UNCHANGED <<authenticated, today, start_date, end_date, output_type, rerun>>
    /\ UNCHANGED <<paceVars, aggVars, driveVars, pruneVars, fetchVars, monthVars>>

NextSync == SyncAuthenticate \/ SyncFetch

SpecSync == InitSync /\ [][NextSync]_vars

----------------------------------------------------------------------------
(* The requests of get_metrics, day after day of the loop of sync *)

MaxFetchDays == 2

\* what the summary request delivers: the steps, no key of the steps, nothing,
\* or a failure
SummaryOutcomes ==
    {SummaryPayload(TRUE, TRUE), SummaryPayload(FALSE, TRUE), JDict(<< >>), Raises}

\* the answers of the server, the same on every day of the run
FetchDays ==
    {[ApiOf(Present, {}, JNull, steps) EXCEPT !.summary = summary] :
        summary \in SummaryOutcomes, steps \in StepsOutcomes}

\* sync has authenticated and stands before the first day of the interval
InitFetch ==
    /\ IdlePace
    /\ IdleAgg
    /\ authenticated = TRUE
    /\ garmin \in FetchDays
    /\ current_date = JDate(1)
    /\ garmin_metrics = JStr("unset")
    /\ IdleSheet
    /\ IdleDrive
    /\ pc = "launch"
    /\ today = JDate(MaxFetchDays)
    /\ start_date = JDate(1)
    /\ end_date = JDate(MaxFetchDays)
    /\ output_type = "sheets"
    /\ metrics_to_write = JList(<< >>)
    /\ exit_code = JNull
    /\ csv_file = << >>
    /\ rerun = FALSE
    /\ logged = JNull
    /\ IdlePrune
    /\ IdleFetch
    /\ IdleMonthly

\* a mutant: gather returns with the first result
GatherDoneAny(requests) == \E r \in SectionRequests : requests[r] = "done"

\* asyncio.gather returns when every coroutine has returned; safe_fetch and
\* direct_fetch return None for a request that failed
GatherDone(requests) == \A r \in SectionRequests : requests[r] = "done"

\* the coroutines of the day are created and handed to asyncio.gather
LaunchRequests ==
    /\ pc = "launch"
    /\ gathered' = [r \in SectionRequests |-> "in flight"]
    /\ steps_request' = "unsent"
    /\ pc' = "gather"
    /\ UNCHANGED <<authenticated, garmin, current_date, garmin_metrics, today, start_date,
                   end_date, output_type, metrics_to_write, exit_code, csv_file, rerun,
                   logged>>
    /\ UNCHANGED <<paceVars, aggVars, sheetVars, driveVars, pruneVars, monthVars>>

\* a request returns or fails
RequestCompletes ==
    /\ pc = "gather"
    /\ \E r \in SectionRequests :
          /\ gathered[r] = "in flight"
          /\ gathered' = [gathered EXCEPT ![r] = "done"]
    /\ UNCHANGED <<steps_request, authenticated, garmin, current_date, garmin_metrics, pc,
                   today, start_date, end_date, output_type, metrics_to_write, exit_code,
                   csv_file, rerun, logged>>
    /\ UNCHANGED <<paceVars, aggVars, sheetVars, driveVars, pruneVars, monthVars>>

\* get_metrics returns the record, sync appends it and goes on to the next day
FinishDay ==
    /\ garmin_metrics' = GetMetrics(garmin, current_date)
    /\ metrics_to_write' = JList(Append(metrics_to_write.v, garmin_metrics'))
    /\ current_date' = NextDay(current_date)
    /\ pc' = IF current_date'.v <= end_date.v THEN "launch" ELSE "done"

\* the results of gather are there: the record is extracted, up to the fallback
\* request of the steps when the summary has none
Extract ==
    /\ pc = "gather"
    /\ GatherDone(gathered)
    /\ IF NeedsFallbackSteps(NormaliseSection(SafeFetch(garmin.summary)))
       THEN /\ steps_request' = "in flight"
            /\ pc' = "steps"
            /\ UNCHANGED <<garmin_metrics, metrics_to_write, current_date>>
       ELSE /\ FinishDay
            /\ UNCHANGED steps_request
    /\ UNCHANGED <<gathered, authenticated, garmin, today, start_date, end_date,
                   output_type, exit_code, csv_file, rerun, logged>>
    /\ UNCHANGED <<paceVars, aggVars, sheetVars, driveVars, pruneVars, monthVars>>

\* the fallback request returns or fails, and the extraction goes on to its end
StepsCompletes ==
    /\ pc = "steps"
    /\ steps_request = "in flight"
    /\ steps_request' = "done"
    /\ FinishDay
    /\ UNCHANGED <<gathered, authenticated, garmin, today, start_date, end_date,
                   output_type, exit_code, csv_file, rerun, logged>>
    /\ UNCHANGED <<paceVars, aggVars, sheetVars, driveVars, pruneVars, monthVars>>

NextFetch == LaunchRequests \/ RequestCompletes \/ Extract \/ StepsCompletes

SpecFetch == InitFetch /\ [][NextFetch]_vars

----------------------------------------------------------------------------
(* cli_monthly_sync (main.py): the months of the range, month after month *)

\* --start-month and --end-month as typed: months of two years, one of them
\* with a month of one digit, and one argument without a month
MonthOptions == {"2023-11", "2023-12", "2024-01", "2024-2", "2024"}

\* the months in which the command runs
RunMonths == {<<2024, 1>>, <<2024, 3>>}

\* the positions of the "-" of an argument
Dashes(s) == {i \in 1..Len(s) : CharAt(s, i) = "-"}

\* map(int, s.split('-')) unpacked into two names raises ValueError unless
\* there are two parts, each a number
IsMonthOption(s) ==
    /\ Cardinality(Dashes(s)) = 1
    /\ LET dash == CHOOSE i \in Dashes(s) : TRUE
       IN  IsDigits(SubSeq(s, 1, dash - 1)) /\ IsDigits(SubSeq(s, dash + 1, Len(s)))

\* s_year, s_month = map(int, s.split('-'))
ParseMonth(s) ==
    LET dash == CHOOSE i \in Dashes(s) : TRUE
    IN  <<IntOf(SubSeq(s, 1, dash - 1)), IntOf(SubSeq(s, dash + 1, Len(s)))>>

\* (e_year, e_month): the end month, the start month when none is given
EndMonthOf(args) ==
    IF Truthy(args.end_month) THEN ParseMonth(args.end_month.v)
    ELSE ParseMonth(args.start_month.v)

\* the condition of the while loop
BeforeOrAt(curr, e) == curr[1] < e[1] \/ (curr[1] = e[1] /\ curr[2] <= e[2])

\* a mutant: the month after December is the 13th of the year
NextMonthNoRoll(curr) == <<curr[1], curr[2] + 1>>

\* curr_m += 1, and January of the next year after December
NextMonthOf(curr) == IF curr[2] + 1 > 12 THEN <<curr[1] + 1, 1>> ELSE <<curr[1], curr[2] + 1>>

\* the month of the day before the first day of the month of today
PreviousMonth(run_month) ==
    IF run_month[2] = 1 THEN <<run_month[1] - 1, 12>> ELSE <<run_month[1], run_month[2] - 1>>

\* what the month loop has of the days of a month: nothing when get_metrics
\* raised on each day, else the records (the date of a record and of the
\* average is a day of the month of the model's dates)
MonthlyLists == {<< >>, <<GarminMetrics([date |-> JDate(1), steps |-> JNum(8000)])>>}

InitMonthly ==
    /\ IdlePace
    /\ IdleAgg
    /\ IdleExtract
    /\ IdleSheet
    /\ IdleDrive
    /\ IdleSync
    /\ IdlePrune
    /\ IdleFetch
    /\ monthly_pc = "start"
    /\ month_args \in [start_month : {JNull} \cup {JStr(s) : s \in MonthOptions},
                       end_month : {JNull} \cup {JStr(s) : s \in MonthOptions},
                       today : RunMonths]
    /\ months_to_process = << >>
    /\ curr_month = JNull
    /\ month_index = 0
    /\ metrics_buffer = << >>

\* lines 339-353, 363-371: the arguments are parsed and the loop begins, or
\* the month before the one of today is the only month
MonthlyStart ==
    /\ monthly_pc = "start"
    /\ IF Truthy(month_args.start_month)
       THEN IF /\ IsMonthOption(month_args.start_month.v)
               /\ Truthy(month_args.end_month) => IsMonthOption(month_args.end_month.v)
            THEN /\ curr_month' = ParseMonth(month_args.start_month.v)
                 /\ monthly_pc' = "enumerate"
                 /\ UNCHANGED months_to_process
            ELSE /\ monthly_pc' = "exit 1"
                 /\ UNCHANGED <<curr_month, months_to_process>>
       ELSE /\ months_to_process' = <<PreviousMonth(month_args.today)>>
            /\ monthly_pc' = "authenticate"
            /\ UNCHANGED curr_month
    /\ UNCHANGED <<month_args, month_index, metrics_buffer>>
    /\ UNCHANGED <<paceVars, aggVars, extractVars, sheetVars, driveVars, syncVars,
                   pruneVars, fetchVars>>

\* lines 354-362: a round of the while loop, or its end
EnumerateStep ==
    /\ monthly_pc = "enumerate"
    /\ IF BeforeOrAt(curr_month, EndMonthOf(month_args))
       THEN /\ months_to_process' = Append(months_to_process, curr_month)
            /\ curr_month' = NextMonthOf(curr_month)
            /\ UNCHANGED monthly_pc
       ELSE /\ monthly_pc' = "authenticate"
            /\ UNCHANGED <<months_to_process, curr_month>>
    /\ UNCHANGED <<month_args, month_index, metrics_buffer>>
    /\ UNCHANGED <<paceVars, aggVars, extractVars, sheetVars, driveVars, syncVars,
                   pruneVars, fetchVars>>

\* lines 375-385: the login, once
MonthlyAuthenticate ==
    /\ monthly_pc = "authenticate"
    /\ \E login \in {"ok", "fails"} :
          monthly_pc' = IF login = "ok" THEN "months" ELSE "exit 1"
    /\ UNCHANGED <<month_args, months_to_process, curr_month, month_index, metrics_buffer>>
    /\ UNCHANGED <<paceVars, aggVars, extractVars, sheetVars, driveVars, syncVars,
                   pruneVars, fetchVars>>

\* lines 388-413: a month of the for loop
ProcessMonth ==
    /\ monthly_pc = "months"
    /\ month_index < Len(months_to_process)
    /\ \E list \in MonthlyLists :
          /\ daily_metrics_list' = list
          /\ monthly_avg' = AggregateMonthlyMetrics(list, JDate(1))
    /\ metrics_buffer' = IF Truthy(monthly_avg') THEN Append(metrics_buffer, monthly_avg')
                         ELSE metrics_buffer
    /\ month_index' = month_index + 1
    /\ UNCHANGED <<monthly_pc, month_args, months_to_process, curr_month>>
    /\ UNCHANGED <<paceVars, extractVars, sheetVars, driveVars, syncVars, pruneVars,
                   fetchVars>>

\* lines 415-417: after the last month, nothing to write or the rows to write
MonthlyFinish ==
    /\ monthly_pc = "months"
    /\ month_index = Len(months_to_process)
    /\ monthly_pc' = IF metrics_buffer = << >> THEN "no metrics" ELSE "write"
    /\ UNCHANGED <<month_args, months_to_process, curr_month, month_index, metrics_buffer>>
    /\ UNCHANGED <<paceVars, aggVars, extractVars, sheetVars, driveVars, syncVars,
                   pruneVars, fetchVars>>

NextMonthly ==
    MonthlyStart \/ EnumerateStep \/ MonthlyAuthenticate \/ ProcessMonth \/ MonthlyFinish

SpecMonthly == InitMonthly /\ [][NextMonthly]_vars

----------------------------------------------------------------------------
(* Calls of prune_old_data on the spreadsheet *)

\* the retention windows of the calls
RetentionDays == {1, 2}

\* a spreadsheet without a tab, on the day after the days of the records
InitPrune ==
    /\ IdlePace
    /\ IdleAgg
    /\ IdleExtract
    /\ IdleSheet
    /\ IdleDrive
    /\ IdlePrune
    /\ IdleFetch
    /\ IdleMonthly
    /\ pc = "idle"
    /\ today = JDate(3)
    /\ start_date = JNull
    /\ end_date = JNull
    /\ output_type = "sheets"
    /\ metrics_to_write = JNull
    /\ exit_code = JNull
    /\ csv_file = << >>
    /\ rerun = FALSE
    /\ logged = JNull

\* prune_old_data(days_to_keep), with its argument and the main tab before it
CallPruneOldData ==
    \E days_to_keep \in RetentionDays :
        /\ worksheets' = PruneOldData(worksheets, days_to_keep)
        /\ prune_arg' = JNum(days_to_keep)
        /\ sheet_before' = worksheets["Daily Summaries"]
        /\ UNCHANGED <<metrics_list, repeated, rows_before>>
        /\ UNCHANGED <<paceVars, aggVars, extractVars, driveVars, syncVars,
                           fetchVars, monthVars>>

NextPrune == CallUpdateMetrics \/ CallPruneOldData

SpecPrune == InitPrune /\ [][NextPrune]_vars

----------------------------------------------------------------------------
(* C10 *)

\* the string is M:SS, SS two digits in 00..59
IsPaceString(s) ==
    LET c == ColonAt(s)
    IN  /\ c > 1
        /\ Len(s) = c + 2
        /\ IsDigits(SubSeq(s, 1, c - 1))
        /\ IsDigits(SubSeq(s, c + 1, c + 2))
        /\ IntOf(SubSeq(s, c + 1, c + 2)) \in 0..59

\* C10: _calculate_pace returns "" for a speed that is None or <= 0; for any
\* other speed it returns M:SS with SS in 00..59 and 60 * M + SS the whole
\* seconds of 1000 / speed; 3.333 m/s gives "5:00".
PaceFormatting ==
    pace # "unset" =>
        /\ (~Truthy(speed_ms) \/ Numer(speed_ms) <= 0) => pace = ""
        /\ (Truthy(speed_ms) /\ Numer(speed_ms) > 0) =>
              /\ IsPaceString(pace)
              /\ LET c == ColonAt(pace)
                     total == 60 * IntOf(SubSeq(pace, 1, c - 1))
                                + IntOf(SubSeq(pace, c + 1, c + 2))
                 IN  /\ total * Numer(speed_ms) <= 1000 * Denom(speed_ms)
                     /\ (total + 1) * Numer(speed_ms) > 1000 * Denom(speed_ms)
        /\ speed_ms = JFloat(3333, 1000) => pace = "5:00"

PaceFormattingWitness == speed_ms = JFloat(3333, 1000) /\ pace = "5:00"

----------------------------------------------------------------------------
(* C8 *)

\* the clock times of a field over the month, as minutes since midnight
RECURSIVE ClockMinutes(_, _)
ClockMinutes(metrics, attr_name) ==
    IF metrics = << >> THEN << >>
    ELSE (IF GetAttr(Head(metrics), attr_name).t = "null" THEN << >>
          ELSE LET s == GetAttr(Head(metrics), attr_name).v
               IN  <<60 * IntOf(SubSeq(s, 1, 2)) + IntOf(SubSeq(s, 4, 5))>>)
         \o ClockMinutes(Tail(metrics), attr_name)

RECURSIVE ShiftBeforeNoon(_)
ShiftBeforeNoon(q) ==
    IF q = << >> THEN << >>
    ELSE <<IF Head(q) < 720 THEN Head(q) + 1440 ELSE Head(q)>> \o ShiftBeforeNoon(Tail(q))

\* s is HH:MM with HH in 00..23 and MM in 00..59
IsClockTime(s) ==
    /\ Len(s) = 5
    /\ CharAt(s, 3) = ":"
    /\ IsDigits(SubSeq(s, 1, 2)) /\ IntOf(SubSeq(s, 1, 2)) \in 0..23
    /\ IsDigits(SubSeq(s, 4, 5)) /\ IntOf(SubSeq(s, 4, 5)) \in 0..59

\* C8: the monthly sleep start is the mean of the start times, each one before
\* 12:00 taken 1440 minutes later, and the monthly sleep end is the mean of the
\* end times as they are; either mean is rounded to the minute, brought back
\* into [0, 1440) and written HH:MM with HH in 00..23 and MM in 00..59; the
\* starts 23:50 and 00:10 give 00:00.
CircularTimeAveraging ==
    monthly_avg.t = "obj" =>
        LET starts == ShiftBeforeNoon(ClockMinutes(daily_metrics_list, "sleep_start_time"))
            ends == ClockMinutes(daily_metrics_list, "sleep_end_time")
            out_start == GetAttr(monthly_avg, "sleep_start_time")
            out_end == GetAttr(monthly_avg, "sleep_end_time")
        IN  /\ starts = << >> => out_start = JNull
            /\ starts # << >> =>
                  /\ out_start.t = "str" /\ IsClockTime(out_start.v)
                  /\ 60 * IntOf(SubSeq(out_start.v, 1, 2)) + IntOf(SubSeq(out_start.v, 4, 5))
                        = Round(SumSeq(starts), Len(starts)) % 1440
            /\ ends = << >> => out_end = JNull
            /\ ends # << >> =>
                  /\ out_end.t = "str" /\ IsClockTime(out_end.v)
                  /\ 60 * IntOf(SubSeq(out_end.v, 1, 2)) + IntOf(SubSeq(out_end.v, 4, 5))
                        = Round(SumSeq(ends), Len(ends)) % 1440
            /\ ClockMinutes(daily_metrics_list, "sleep_start_time") = <<1430, 10>>
                  => out_start = JStr("00:00")

CircularTimeAveragingWitness ==
    /\ monthly_avg.t = "obj"
    /\ ClockMinutes(daily_metrics_list, "sleep_start_time") = <<1430, 10>>
    /\ GetAttr(monthly_avg, "sleep_start_time") = JStr("00:00")
    /\ GetAttr(monthly_avg, "sleep_end_time") # JNull

----------------------------------------------------------------------------
(* The extractor: claims C6, C7 and C9 *)

\* the sections that delivered nothing to the call
Failing == {s \in SectionNames : garmin[s] \in AbsentForms}

\* the fields that nothing but the section fills
SolelyFrom ==
    [summary |-> {"body_battery_max", "body_battery_min", "active_calories",
                  "resting_calories", "intensity_minutes", "resting_heart_rate",
                  "average_stress", "rest_stress_duration", "low_stress_duration",
                  "medium_stress_duration", "high_stress_duration", "floors_climbed"},
     stats |-> {"weight", "body_fat", "bmi", "skeletal_muscle", "bone_mass", "body_water",
                "visceral_fat"},
     sleep_data |-> {"sleep_score", "sleep_length", "sleep_need", "sleep_efficiency",
                     "sleep_start_time", "sleep_end_time", "sleep_deep", "sleep_light",
                     "sleep_rem", "sleep_awake", "overnight_respiration",
                     "overnight_pulse_ox"},
     hrv_payload |-> {"overnight_hrv", "hrv_status"},
     bp_payload |-> {"blood_pressure_systolic", "blood_pressure_diastolic"},
     activities |-> {},
     training_status_std |-> {"vo2max_running", "vo2max_cycling", "training_status"}]

\* the fields the section fills together with other requests
AlsoFrom ==
    [summary |-> {"steps", "seven_day_load"},
     stats |-> {}, sleep_data |-> {}, hrv_payload |-> {}, bp_payload |-> {},
     activities |-> {"activities"},
     training_status_std |-> {"lactate_threshold_bpm", "seven_day_load"}]

\* C6: when a section request fails or returns nothing, get_metrics of an
\* authenticated client does not raise; every scalar field that only this
\* section fills is None (and the list of activities, which has no None, is
\* empty when the activities are missing); and every field the section has no
\* part in has the value it has when the section does deliver its payload.
MissingSectionPropagation ==
    (garmin_metrics # JStr("unset") /\ authenticated) =>
        /\ garmin_metrics.t = "obj"
        /\ \A s \in Failing :
            LET delivered == GetMetrics([garmin EXCEPT ![s] = Present[s]], current_date)
            IN  /\ \A f \in SolelyFrom[s] : GetAttr(garmin_metrics, f) = JNull
                /\ s = "activities" => GetAttr(garmin_metrics, "activities") = JList(<< >>)
                /\ \A f \in MetricAttrs \ (SolelyFrom[s] \cup AlsoFrom[s]) :
                      GetAttr(garmin_metrics, f) = GetAttr(delivered, f)

\* a call that lost exactly the sleep section and kept the others
MissingSectionPropagationWitness ==
    /\ garmin_metrics.t = "obj"
    /\ Failing = {"sleep_data"}
    /\ garmin.sleep_data = Raises
    /\ GetAttr(garmin_metrics, "sleep_score") = JNull
    /\ GetAttr(garmin_metrics, "overnight_hrv") = JNum(45)
    /\ GetAttr(garmin_metrics, "weight") = JFloat(70500, 1000)

\* the sleep block the request delivered, JNull when it delivered none
SleepBlock ==
    IF garmin.sleep_data.t = "dict" /\ HasKey(garmin.sleep_data, "dailySleepDTO")
    THEN Get(garmin.sleep_data, "dailySleepDTO") ELSE JNull

\* what a delivered block reports under key
Reported(block, key) == IF block = JNull THEN JNull ELSE Get(block, key)

\* C7: a field the source did not return is None in the record, never 0, also
\* when its section is there: the four sleep phases of a sleep block without
\* the phase's seconds, and the intensity minutes of a summary without the
\* moderate and the vigorous minutes.
IndependentlyNullable ==
    garmin_metrics.t = "obj" =>
        /\ \A phase \in {<<"sleep_deep", "deepSleepSeconds">>,
                         <<"sleep_light", "lightSleepSeconds">>,
                         <<"sleep_rem", "remSleepSeconds">>,
                         <<"sleep_awake", "awakeSleepSeconds">>} :
              Reported(SleepBlock, phase[2]) = JNull
                  => GetAttr(garmin_metrics, phase[1]) = JNull
        /\ (/\ garmin.summary.t = "dict"
            /\ ~HasKey(garmin.summary, "moderateIntensityMinutes")
            /\ ~HasKey(garmin.summary, "vigorousIntensityMinutes"))
              => GetAttr(garmin_metrics, "intensity_minutes") = JNull

\* C9: with total sleep seconds T > 0 and awake seconds A in the sleep block,
\* sleep_length is round(T / 60) and sleep_efficiency round((T - A) / T * 100);
\* T = 25200 and A = 600 with nothing from the other sections give 420 and 98
\* with the date set and no stress, body composition or blood pressure; without
\* T, or with T = 0, sleep_efficiency is None.
SleepBlockExtraction ==
    garmin_metrics.t = "obj" =>
        LET total == Reported(SleepBlock, "sleepTimeSeconds")
            awake == Reported(SleepBlock, "awakeSleepSeconds")
            A == IF awake = JNull THEN 0 ELSE awake.v
        IN  /\ (total # JNull /\ total.v > 0) =>
                  /\ GetAttr(garmin_metrics, "sleep_length") = JNum(Round(total.v, 60))
                  /\ GetAttr(garmin_metrics, "sleep_efficiency")
                        = JNum(Round((total.v - A) * 100, total.v))
            /\ (total = JNull \/ total = JNum(0)) =>
                  GetAttr(garmin_metrics, "sleep_efficiency") = JNull
            /\ (total = JNum(25200) /\ awake = JNum(600)
                    /\ Failing = SectionNames \ {"sleep_data"}) =>
                  /\ GetAttr(garmin_metrics, "sleep_length") = JNum(420)
                  /\ GetAttr(garmin_metrics, "sleep_efficiency") = JNum(98)
                  /\ GetAttr(garmin_metrics, "date") = current_date
                  /\ \A f \in SolelyFrom.summary \cup SolelyFrom.stats \cup SolelyFrom.bp_payload :
                        GetAttr(garmin_metrics, f) = JNull

\* the night of 25200 s with 600 s awake and nothing from the other sections
SleepBlockExtractionWitness ==
    /\ garmin_metrics.t = "obj"
    /\ Reported(SleepBlock, "sleepTimeSeconds") = JNum(25200)
    /\ Reported(SleepBlock, "awakeSleepSeconds") = JNum(600)
    /\ Failing = SectionNames \ {"sleep_data"}
    /\ GetAttr(garmin_metrics, "sleep_efficiency") = JNum(98)

----------------------------------------------------------------------------
(* C1 *)

\* the data rows of a worksheet that have the key in their first cell
RowsOf(worksheet, key) ==
    IF worksheet.t = "missing" THEN {}
    ELSE {p \in 2..Len(worksheet.rows) : worksheet.rows[p][1] = key}

\* C1: when update_metrics has been called twice in a row with the same list
\* of records and neither call met an exception of the spreadsheet API, the
\* main tab has as many rows after the second call as after the first, and
\* for every date of the list exactly one data row carries it and holds the
\* values of the last record of that date in the list.
UpdateMetricsIdempotent ==
    repeated =>
        LET worksheet == worksheets["Daily Summaries"]
            list == metrics_list.v
            key(i) == IsoFormat(GetAttr(list[i], "date"))
        IN  /\ RowCount(worksheet) = rows_before
            /\ \A i \in 1..Len(list) :
                    /\ Cardinality(RowsOf(worksheet, key(i))) = 1
                    /\ (\A j \in (i + 1)..Len(list) : key(j) # key(i)) =>
                            \A p \in RowsOf(worksheet, key(i)) :
                                worksheet.rows[p] = MetricRow(HEADERS, list[i])

\* a list with two different records of one day has been written twice to a
\* tab that holds rows of both days
UpdateMetricsIdempotentWitness ==
    /\ repeated
    /\ Len(metrics_list.v) = 2
    /\ metrics_list.v[1] # metrics_list.v[2]
    /\ GetAttr(metrics_list.v[1], "date") = GetAttr(metrics_list.v[2], "date")
    /\ rows_before = 3

----------------------------------------------------------------------------
(* C2 *)

\* the lines of a file of the folder that have the key in their first cell
LinesOf(file, key) ==
    IF file.t = "missing" THEN {}
    ELSE {p \in 2..Len(file.rows) : file.rows[p][1] = key}

\* C2: after any sequence of upserts from an empty destination, every date
\* present in the main tab of the spreadsheet and every date present in the
\* file of the Drive folder is the date of exactly one row there, also when
\* the list of one call has the same date more than once.
NoDuplicateDates ==
    /\ \A d \in SheetDays :
           Cardinality(RowsOf(worksheets["Daily Summaries"], IsoFormat(JDate(d)))) <= 1
    /\ \A d \in SheetDays :
           Cardinality(LinesOf(drive_file, IsoFormat(JDate(d)))) <= 1

----------------------------------------------------------------------------
(* C3 *)

\* C3: after any sequence of activity upserts, every activity id present in
\* the activities tab is the id of exactly one data row, also when the rows
\* of one call have the same id more than once and the tab does not have it.
NoDuplicateActivityIds ==
    LET worksheet == worksheets["Activity Summaries"]
    IN  \A p, q \in 2..RowCount(worksheet) :
            worksheet.rows[p][1] = worksheet.rows[q][1] => p = q

----------------------------------------------------------------------------
(* C4 *)

\* the cells of a column in the data rows of a worksheet
ColumnOf(worksheet, c) ==
    IF worksheet.t = "missing" THEN {}
    ELSE {worksheet.rows[p][c] : p \in 2..Len(worksheet.rows)}

\* the days of the records fetched that have an activity
DaysWithActivities ==
    {GetAttr(metrics_to_write.v[i], "date") : i \in
        {k \in 1..Len(metrics_to_write.v) :
            GetAttr(metrics_to_write.v[k], "activities").v # << >>}}

\* C4: when a run of sync for the days today-2, today-1 and today has written
\* the three records to the main tab and has returned, the historical-only
\* tabs have received the records of today-2 and today-1 and not today's: the
\* stress tab has rows of exactly these two days, and the activity summaries
\* tab has the activities of these two days and none of today.
HistoricalPartition ==
    LET iso(k) == IsoFormat(JDate(today.v - k))
    IN  (/\ pc = "done"
         /\ output_type = "sheets"
         /\ start_date = JDate(today.v - 2)
         /\ end_date = today
         /\ {iso(2), iso(1), iso(0)} \subseteq ColumnOf(worksheets["Daily Summaries"], 1))
        => /\ ColumnOf(worksheets["Stress Data"], 1) = {iso(2), iso(1)}
           /\ iso(0) \notin ColumnOf(worksheets["Activity Summaries"], 2)
           /\ \A k \in {1, 2} :
                  JDate(today.v - k) \in DaysWithActivities
                      => iso(k) \in ColumnOf(worksheets["Activity Summaries"], 2)

----------------------------------------------------------------------------
(* C5 *)

\* a cell that reads as a date of the month, and its day
IsIsoDate(text) ==
    Len(text) = 10 /\ SubSeq(text, 1, 8) = "2024-03-" /\ IsDigits(SubSeq(text, 9, 10))
DayOf(text) == IntOf(SubSeq(text, 9, 10))

\* C5: after prune_old_data(days_to_keep=N) the main tab has its header row
\* and, in their order, exactly the rows it had before whose date is on or
\* after the cutoff today - N or cannot be parsed: the row of the cutoff day
\* stays, the row of the day before the cutoff is removed.
PruningBoundary ==
    (prune_arg # JNull /\ RowCount(sheet_before) >= 1) =>
        LET cutoff == today.v - prune_arg.v
            kept(row) == ~IsIsoDate(row[1]) \/ DayOf(row[1]) >= cutoff
        IN  /\ worksheets["Daily Summaries"].t = "sheet"
            /\ worksheets["Daily Summaries"].rows =
                   <<Head(sheet_before.rows)>> \o SelectSeq(Tail(sheet_before.rows), kept)

----------------------------------------------------------------------------
(* C11 *)

\* the lines of the local file that have the text in their first cell
CsvLinesOf(text) == {p \in 1..Len(csv_file) : csv_file[p][1] = text}

\* C11: when sync with output_type 'csv' has run twice in a row for the same
\* interval of days, the local file has a single header line and exactly one
\* line for every day of the interval.
CsvUpsert ==
    (/\ pc = "done"
     /\ output_type = "csv"
     /\ rerun
     /\ start_date.v <= end_date.v)
    => /\ CsvLinesOf("Date") = {1}
       /\ \A d \in start_date.v..end_date.v :
              Cardinality(CsvLinesOf(IsoFormat(JDate(d)))) = 1

----------------------------------------------------------------------------
(* C12 *)

\* the records of the list are those of the days first..last, one a day, in
\* ascending order
OneRecordPerDay(records, first, last) ==
    /\ Len(records) = (IF last >= first THEN last - first + 1 ELSE 0)
    /\ \A i \in 1..Len(records) :
          /\ records[i].t = "obj"
          /\ GetAttr(records[i], "date") = JDate(first + i - 1)

\* C12: the loop of sync visits the days of [start_date, end_date] once each in
\* ascending order: while it runs the list holds one record for every day
\* before current_date, when the run is done it holds one record for every day
\* of the interval, and the record of a day whose extraction raised is
\* GarminMetrics(date=day), after which the loop goes on.
DayLoopCompleteness ==
    metrics_to_write # JNull =>
        /\ pc = "fetching" =>
              /\ current_date.v <= end_date.v
              /\ OneRecordPerDay(metrics_to_write.v, start_date.v, current_date.v - 1)
        /\ pc = "done" =>
              OneRecordPerDay(metrics_to_write.v, start_date.v, end_date.v)
        /\ (metrics_to_write.v # << >> /\ garmin.stats = NullEntryStats) =>
              /\ garmin_metrics = GarminMetrics([date |-> JDate(current_date.v - 1)])
              /\ metrics_to_write.v[Len(metrics_to_write.v)] = garmin_metrics

\* a finished run over three days whose second day raised in the extraction
\* and whose third day is there in full
DayLoopCompletenessWitness ==
    /\ pc = "done"
    /\ start_date = JDate(1)
    /\ end_date = JDate(3)
    /\ Len(metrics_to_write.v) = 3
    /\ metrics_to_write.v[2] = GarminMetrics([date |-> JDate(2)])
    /\ GetAttr(metrics_to_write.v[3], "steps") = JNum(8000)

----------------------------------------------------------------------------
(* C13 *)

\* the sleep scores of the day make their parsing raise
ScoresRaise ==
    LET scores == Get(Get(garmin.sleep_data, "dailySleepDTO"), "sleepScores")
    IN  scores.t # "dict" \/ Get(scores, "overall").t # "dict"

\* the weight list of the day makes its parsing raise
WeightListRaises == garmin.stats \in {NullEntryStats, StringEntryStats}

\* the record of the day with the sleep scores and the weight list in shape
InShape ==
    GetMetrics([garmin EXCEPT
                   !.stats = Present.stats,
                   !.sleep_data = IF ScoresRaise THEN WithSleepScores(@, JDict(<< >>))
                                  ELSE @],
               current_date)

\* C13: when the sleep scores or an entry of the weight list have a shape that
\* makes their parsing raise, get_metrics returns a record in which the score
\* is None, and every field other than the score and the body composition of
\* the weight list has the value it has when the shape is the expected one.
ParseFailureIsolation ==
    garmin_metrics.t = "obj" =>
        /\ ScoresRaise => GetAttr(garmin_metrics, "sleep_score") = JNull
        /\ \A f \in MetricAttrs \ ((IF ScoresRaise THEN {"sleep_score"} ELSE {})
                                    \cup (IF WeightListRaises THEN SolelyFrom.stats ELSE {})) :
              GetAttr(garmin_metrics, f) = GetAttr(InShape, f)

----------------------------------------------------------------------------
(* C14 *)

\* the keys of the records of the list
KeysOf(list) == {IsoFormat(GetAttr(list[i], "date")) : i \in 1..Len(list)}

\* the row of the last record of the list that has the key
LastRowOf(list, key) ==
    LET at == {i \in 1..Len(list) : IsoFormat(GetAttr(list[i], "date")) = key}
    IN  MetricRow(HEADERS, list[CHOOSE i \in at : \A j \in at : j <= i])

\* C14: after a call of update_metrics that met no exception, for every key of
\* the list: when a data row of the tab had the key, that row, at the position
\* it had when the tab was read (index among the data rows + 2), holds the new
\* values and no row was appended for the key; otherwise exactly one row was
\* appended for it below the rows read. The other rows are where they were
\* and as they were.
UpsertDecision ==
    (metrics_list # JNull /\ prune_arg = JNull) =>
        LET after == worksheets["Daily Summaries"]
            list == metrics_list.v
            appended == {key \in KeysOf(list) : RowsOf(sheet_before, key) = {}}
            read == IF RowCount(sheet_before) = 0 THEN 1 ELSE RowCount(sheet_before)
        IN  /\ RowCount(after) = read + Cardinality(appended)
            /\ \A key \in KeysOf(list) :
                  IF key \in appended
                  THEN /\ Cardinality(RowsOf(after, key)) = 1
                       /\ \A p \in RowsOf(after, key) :
                             p > read /\ after.rows[p] = LastRowOf(list, key)
                  ELSE /\ RowsOf(after, key) = RowsOf(sheet_before, key)
                       /\ \A p \in RowsOf(after, key) : after.rows[p] = LastRowOf(list, key)
            /\ \A p \in 2..RowCount(sheet_before) :
                  sheet_before.rows[p][1] \notin KeysOf(list)
                      => after.rows[p] = sheet_before.rows[p]

\* a call with the records of both days on a tab that held a row of the
\* second day with other values: that row is updated in place, a row of the
\* first day is appended below it
UpsertDecisionWitness ==
    /\ metrics_list # JNull
    /\ prune_arg = JNull
    /\ RowCount(sheet_before) = 2
    /\ sheet_before.rows[2][1] = "2024-03-02"
    /\ Len(metrics_list.v) = 2
    /\ GetAttr(metrics_list.v[1], "date") = JDate(1)
    /\ GetAttr(metrics_list.v[2], "date") = JDate(2)
    /\ worksheets["Daily Summaries"].rows[2] # sheet_before.rows[2]
    /\ worksheets["Daily Summaries"].rows[3][1] = "2024-03-01"

----------------------------------------------------------------------------
(* C15 *)

\* the data rows of a worksheet whose date cell shows the day
RowsShowing(worksheet, day) ==
    {p \in 2..RowCount(worksheet) : ShownDay(worksheet.rows[p][1]) = day}

\* C15: after a call of update_metrics that met no exception, a day of the
\* list that the tab already had a row of, whatever form the spreadsheet
\* shows its date cell in, still has that row and no second one, and the row
\* holds the new values.
KeyNormalization ==
    (metrics_list # JNull /\ prune_arg = JNull) =>
        \A i \in 1..Len(metrics_list.v) :
            LET day == GetAttr(metrics_list.v[i], "date")
                had == RowsShowing(sheet_before, day)
                after == worksheets["Daily Summaries"]
            IN  had # {} =>
                    /\ RowsShowing(after, day) = had
                    /\ \A p \in had :
                          Tail(after.rows[p])
                              = Tail(LastRowOf(metrics_list.v, IsoFormat(day)))

----------------------------------------------------------------------------
(* C16 *)

\* every data row of the activities tab is, after the step, where it was and
\* as it was
ActivityRowsKept ==
    LET before == worksheets["Activity Summaries"]
        after == worksheets'["Activity Summaries"]
    IN  \A p \in 2..RowCount(before) :
            /\ p <= RowCount(after)
            /\ after.rows[p] = before.rows[p]

\* C16: no activity upsert changes a row that the activities tab already has,
\* also when the activity of the row is fetched again with other values.
ActivityImmutability == [][ActivityRowsKept]_vars

----------------------------------------------------------------------------
(* C17 and C18 *)

\* what sync logs when the login at Garmin or the credentials of the
\* spreadsheet client fail
AuthenticationErrors ==
    {JStr("MFA required but cannot be entered in headless mode."),
     JStr("Authentication failed"),
     JStr("CRITICAL: 'credentials/client_secret.json' is missing"),
     JStr("An error occurred during Google Sheets operation")}

FatalBeforeFetch ==
    /\ (pc' = "exited" /\ ~authenticated') =>
          /\ exit_code' = JNum(1)
          /\ metrics_to_write' = JNull
          /\ garmin_metrics' = garmin_metrics
          /\ worksheets' = worksheets
          /\ csv_file' = csv_file
    /\ pc' = "fetching" => authenticated'

\* C18: when authenticate raises in sync, MFARequiredException or another
\* exception, the run ends with exit code 1 without a call of get_metrics and
\* without a write to the spreadsheet or to the local file.
AuthFailureFatal == [][FatalBeforeFetch]_vars

\* a run that ended at the multi-factor challenge after a run that wrote the
\* local file
AuthFailureFatalWitness ==
    /\ pc = "exited"
    /\ ~authenticated
    /\ logged = JStr("MFA required but cannot be entered in headless mode.")
    /\ exit_code = JNum(1)
    /\ metrics_to_write = JNull
    /\ Len(csv_file) = 2

----------------------------------------------------------------------------
(* C19 and C20 *)

\* k is num / den rounded to an integer, to either side when it is half way
IsRounded(k, num, den) ==
    LET off == k * den - num
    IN  2 * (IF off < 0 THEN -off ELSE off) <= den

\* the value is the mean of the field's values in the daily records, rounded
\* to a multiple of 1 / scale
IsRoundedMean(value, attr_name, scale) ==
    LET values == AvgValues(daily_metrics_list, attr_name)
        den == DenomProduct(values)
    IN  /\ IsNumber(value)
        /\ (Numer(value) * scale) % Denom(value) = 0
        /\ IsRounded((Numer(value) * scale) \div Denom(value),
                     scale * NumerSum(values, den), den * Len(values))

\* C19: aggregate_monthly_metrics returns None for an empty list; otherwise a
\* numeric field of the result is None when no daily record has a value of it,
\* else the mean of the values there are, rounded to two decimals, and for
\* the integer fields rounded to the nearest integer.
MonthlyNumericAggregation ==
    monthly_avg # JStr("unset") =>
        IF daily_metrics_list = << >> THEN monthly_avg = JNull
        ELSE /\ monthly_avg.t = "obj"
             /\ \A a \in AvgAttrs \cup AvgIntAttrs :
                   IF AvgValues(daily_metrics_list, a) = << >>
                   THEN GetAttr(monthly_avg, a) = JNull
                   ELSE IF a \in AvgIntAttrs
                   THEN /\ GetAttr(monthly_avg, a).t = "num"
                        /\ IsRoundedMean(GetAttr(monthly_avg, a), a, 1)
                   ELSE IsRoundedMean(GetAttr(monthly_avg, a), a, 100)

\* the numeric fields of GarminMetrics that aggregate_monthly_metrics does
\* not name
OtherNumericAttrs ==
    {"body_battery_max", "body_battery_min", "seven_day_load", "skeletal_muscle",
     "bone_mass", "body_water", "visceral_fat"}

\* C20: in the record aggregate_monthly_metrics returns, every numeric field
\* of which a daily record has a value is not None, the body battery, the
\* seven day load and the body composition among them; training_status and
\* hrv_status are "Monthly Avg" and there are no activities.
MonthlyFieldCoverage ==
    (monthly_avg # JStr("unset") /\ monthly_avg # JNull) =>
        /\ \A a \in AvgAttrs \cup AvgIntAttrs \cup OtherNumericAttrs :
              AvgValues(daily_metrics_list, a) # << >> => GetAttr(monthly_avg, a) # JNull
        /\ GetAttr(monthly_avg, "training_status") = JStr("Monthly Avg")
        /\ GetAttr(monthly_avg, "hrv_status") = JStr("Monthly Avg")
        /\ GetAttr(monthly_avg, "activities") = JList(<< >>)
----------------------------------------------------------------------------
(* C21 *)

\* the rows a call of a builder wrote to its tab follow the table: each holds,
\* under every header of the tab, the field HEADER_TO_ATTRIBUTE_MAP gives it
RowsFollowTable ==
    \A tab \in BuilderTabs :
        (worksheets'[tab] # worksheets[tab] /\ metrics_list' # JNull) =>
            \A i \in 1..Len(metrics_list'.v) :
                LET m == metrics_list'.v[i]
                    worksheet == worksheets'[tab]
                IN  \A p \in RowsOf(worksheet, IsoFormat(GetAttr(m, "date"))) :
                        worksheet.rows[p] = MetricRow(HeadersOf(tab), m)

\* C21: a call of update_metrics, update_sleep, update_body_composition,
\* update_blood_pressure or update_stress that went through leaves, for every
\* record it wrote, a row with as many cells as the tab has headers, the cell
\* under each header being the field of the record that
\* HEADER_TO_ATTRIBUTE_MAP assigns to the header.
RowConstruction == [][RowsFollowTable]_vars
----------------------------------------------------------------------------
(* C22 *)

\* the keys of the rows of the activities of the list
ActivityKeysOf(list) == {ActivityRows(list)[i][1] : i \in 1..Len(ActivityRows(list))}

\* every data row the tab had is, after the step, at its position, and one
\* that changed has kept its key, which is a key of the list when the call
\* went through
FrameOf(tab, keys) ==
    LET before == worksheets[tab]
        after == worksheets'[tab]
    IN  \A p \in 2..RowCount(before) :
            /\ p <= RowCount(after)
            /\ after.rows[p] # before.rows[p] =>
                  /\ after.rows[p][1] = before.rows[p][1]
                  /\ metrics_list' # JNull => before.rows[p][1] \in keys

UpsertFrameStep ==
    LET list == IF metrics_list' # JNull THEN metrics_list'.v ELSE << >>
    IN  /\ FrameOf("Daily Summaries", KeysOf(list))
        /\ FrameOf("Activity Summaries", ActivityKeysOf(list))
        /\ \A tab \in TabNames \ {"Daily Summaries", "Activity Summaries"} :
                worksheets'[tab] = worksheets[tab]

\* C22: a call of update_metrics or of update_activity_summary changes, in
\* the tab it writes, only the header row, rows whose key is a key of an
\* incoming record and rows it appends below; every data row with another
\* key keeps its position and its cells, and no other tab changes.
UpsertFrame == [][UpsertFrameStep]_vars

\* a call that went through found a tab with rows of two keys and wrote a
\* list with one of them: the row of the other key is in the tab as it was
UpsertFrameWitness ==
    /\ metrics_list # JNull
    /\ Len(metrics_list.v) = 1
    /\ sheet_before.t = "sheet"
    /\ Len(sheet_before.rows) = 3
    /\ sheet_before.rows[2][1] # sheet_before.rows[3][1]
    /\ \E p \in 2..3 :
          /\ sheet_before.rows[p][1] \in KeysOf(metrics_list.v)
          /\ worksheets["Daily Summaries"].rows[p] # sheet_before.rows[p]
----------------------------------------------------------------------------
(* C23 *)

\* some dict of the tree holds a value that is not null under the key
RECURSIVE HoldsKey(_, _)
HoldsKey(tree, key) ==
    CASE tree.t = "dict" ->
            \/ Get(tree, key) # JNull
            \/ \E i \in 1..Len(tree.v) : HoldsKey(tree.v[i][2], key)
      [] tree.t = "list" -> \E i \in 1..Len(tree.v) : HoldsKey(tree.v[i], key)
      [] OTHER -> FALSE

\* C23: the load get_metrics reports from the modern training payload is None
\* exactly when no dict of the payload, at any depth, holds a value under
\* dailyTrainingLoadAcute, acuteLoad, sevenDayLoad or timeInZoneLoad; otherwise
\* it is the value, rounded, of the earliest-listed of these keys that the
\* payload holds anywhere, a deeper dailyTrainingLoadAcute being preferred over
\* a timeInZoneLoad above it.
TrainingLoadFallback ==
    garmin_metrics.t = "obj" =>
        LET tree == garmin.training_status_modern
            held == {k \in 1..Len(LoadKeys) : HoldsKey(tree, LoadKeys[k])}
            first == CHOOSE k \in held : \A j \in held : k <= j
            load == LoadValue(LoadKeys[first])
            seven_day_load == GetAttr(garmin_metrics, "seven_day_load")
        IN  IF held = {} THEN seven_day_load = JNull
            ELSE seven_day_load = JNum(Round(Numer(load), Denom(load)))
----------------------------------------------------------------------------
(* C24 *)

\* the value under the key of what the request of the latest threshold
\* delivered, JNull when it delivered none
LatestOf(latest, key) ==
    IF latest.t = "dict" /\ Truthy(Get(latest, key)) THEN Get(latest, key) ELSE JNull

\* the value of the last entry of the range that carries the date, JNull when
\* the range has none
LastOn(range, iso) ==
    LET at == IF range.t = "list"
              THEN {i \in 1..Len(range.v) : Get(range.v[i], "calendarDate") = JStr(iso)}
              ELSE {}
    IN  IF at = {} THEN JNull
        ELSE Get(range.v[CHOOSE i \in at : \A j \in at : j <= i], "value")

\* a positive speed below 1.0 times 10
SpeedCorrected(speed) ==
    IF Numer(speed) > 0 /\ Numer(speed) < Denom(speed)
    THEN JFloat(10 * Numer(speed), Denom(speed)) ELSE speed

\* C24: get_metrics takes the lactate threshold of the latest-value request
\* first and that of the date-ranged request only when the latest one is
\* absent, from the last entry of the range that carries the target date; the
\* pace is computed from the speed used, times 10 when it is positive and
\* below 1.0, whichever request supplied the speed.
LactateFallback ==
    garmin_metrics.t = "obj" =>
        LET iso == IsoFormat(current_date)
            latest_speed == LatestOf(SafeFetch(garmin.lactate_data), "speed")
            latest_bpm == LatestOf(SafeFetch(garmin.lactate_data), "heartRate")
            speed == IF latest_speed # JNull THEN latest_speed
                     ELSE LastOn(SafeFetch(garmin.lactate_range_speed), iso)
            bpm == IF latest_bpm # JNull THEN latest_bpm
                   ELSE LastOn(SafeFetch(garmin.lactate_range_hr), iso)
        IN  /\ GetAttr(garmin_metrics, "lactate_threshold_pace")
                  = IF speed = JNull THEN JNull
                    ELSE JStr(CalculatePace(SpeedCorrected(speed)))
            /\ GetAttr(garmin_metrics, "lactate_threshold_bpm") = bpm
----------------------------------------------------------------------------
(* C25 *)

\* the readings a payload holds, at any nesting: its dicts with a systolic or
\* a diastolic key
RECURSIVE ReadingsIn(_)
ReadingsIn(payload) ==
    LET RECURSIVE Of(_, _)
        Of(items, i) == IF i > Len(items) THEN {}
                        ELSE ReadingsIn(items[i]) \cup Of(items, i + 1)
    IN  CASE payload.t = "list" -> Of(payload.v, 1)
          [] payload.t = "dict" ->
                IF HasKey(payload, "systolic") \/ HasKey(payload, "diastolic")
                THEN {payload}
                ELSE Of(DictValues(payload), 1)
          [] OTHER -> {}

\* the number of times the payload holds the reading
RECURSIVE TimesIn(_, _)
TimesIn(payload, reading) ==
    LET RECURSIVE Of(_, _)
        Of(items, i) == IF i > Len(items) THEN 0
                        ELSE TimesIn(items[i], reading) + Of(items, i + 1)
    IN  CASE payload = reading -> 1
          [] payload.t = "list" -> Of(payload.v, 1)
          [] payload.t = "dict" -> Of(DictValues(payload), 1)
          [] OTHER -> 0

\* the component is the mean, rounded to a nearest integer, of the values of
\* the readings that have one other than 0, and None when there is none
IsDayMean(component, bp_payload, key) ==
    LET valid == {r \in ReadingsIn(bp_payload) : Truthy(Get(r, key))}
        RECURSIVE Sum(_)
        Sum(S) == IF S = {} THEN 0
                  ELSE LET r == CHOOSE r \in S : TRUE
                       IN  TimesIn(bp_payload, r) * Get(r, key).v + Sum(S \ {r})
        RECURSIVE Count(_)
        Count(S) == IF S = {} THEN 0
                    ELSE LET r == CHOOSE r \in S : TRUE
                         IN  TimesIn(bp_payload, r) + Count(S \ {r})
    IN  IF valid = {} THEN component = JNull
        ELSE component.t = "num" /\ IsRounded(component.v, Sum(valid), Count(valid))

----------------------------------------------------------------------------
(* C26 *)

\* the zone requests of the activity failed
ZoneFetchFailed(hr) == hr.first = Raises \/ (hr.first = JNull /\ hr.second = Raises)

\* the positions of the raw list that hold a dict, in order
DictEntries(raw) ==
    LET RECURSIVE From(_)
        From(i) == IF i > Len(raw) THEN << >>
                   ELSE (IF raw[i].t = "dict" THEN <<i>> ELSE << >>) \o From(i + 1)
    IN  From(1)

\* the entry has the id, type, distance and duration of the activity, and
\* the zone minutes of its own requests: 0 in all five when they failed
EntryOf(entry, activity, hr) ==
    LET zone(z) == Get(entry, "HR Zone " \o ToString(z) \o " (min)")
        atype == Get(activity, "activityType")
    IN  /\ Get(entry, "Activity ID") = Get(activity, "activityId")
        /\ Get(entry, "Activity Type")
              = IF atype.t = "dict" THEN Get(atype, "typeKey") ELSE JStr("Unknown")
        /\ Get(entry, "Distance (km)")
              = IF Get(activity, "distance") = JNull THEN JNum(0)
                ELSE RoundTo(DivBy(Get(activity, "distance"), 1000), 100)
        /\ Get(entry, "Duration (min)")
              = IF Get(activity, "duration") = JNull THEN JNum(0)
                ELSE RoundTo(DivBy(Get(activity, "duration"), 60), 10)
        /\ IF ZoneFetchFailed(hr) THEN \A z \in 1..5 : zone(z) = JNum(0)
           ELSE /\ zone(1) = RoundTo(JNum(10), 100)
                /\ zone(2) = RoundTo(JFloat(25, 2), 100)
                /\ \A z \in 3..5 : zone(z) = JNum(0)

\* C26: get_metrics appends an entry for every dict of the raw activity list,
\* in order; an activity whose zone requests failed has its entry with its
\* id, type, distance and duration and 0 minutes in each of the five zones,
\* and the entries of the other activities are those of their own requests.
ActivityEnrichmentFailure ==
    garmin_metrics.t = "obj" =>
        LET raw == garmin.activities.v
            at == DictEntries(raw)
            entries == GetAttr(garmin_metrics, "activities").v
        IN  /\ Len(entries) = Len(at)
            /\ \A k \in 1..Len(at) : EntryOf(entries[k], raw[at[k]], garmin.hr_zones[at[k]])

----------------------------------------------------------------------------
(* C27 *)

\* the summary request delivered a dict with a step count
SummarySupplies(outcome) ==
    /\ outcome.t = "dict"
    /\ \E i \in 1..Len(outcome.v) : outcome.v[i][1] = "totalSteps" /\ outcome.v[i][2] # JNull

\* the record of the day that has just been appended
LastRecord == metrics_to_write.v[Len(metrics_to_write.v)]

\* the record of the same day had the fallback request delivered the steps
WithFallbackSteps ==
    GetMetrics([garmin EXCEPT !.daily_steps_data =
                    JList(<< JDict(<< <<"totalSteps", JNum(7000)>> >>) >>)],
               GetAttr(LastRecord, "date"))

\* C27: the fallback request of the steps is issued exactly when the summary
\* delivers no step count (the request failed, the summary is empty, or it has
\* no totalSteps), and not when the summary has one, which is then the steps of
\* the record; when the fallback request fails the steps are None and every
\* other field is what it is when the fallback request succeeds
StepsFallback ==
    /\ pc = "gather" => steps_request = "unsent"
    /\ pc = "steps" => steps_request = "in flight" /\ ~SummarySupplies(garmin.summary)
    /\ (pc \in {"launch", "done"} /\ metrics_to_write.v # << >>) =>
          /\ steps_request = "done" <=> ~SummarySupplies(garmin.summary)
          /\ steps_request = "unsent" <=> SummarySupplies(garmin.summary)
          /\ SummarySupplies(garmin.summary) =>
                GetAttr(LastRecord, "steps") = Get(garmin.summary, "totalSteps")
          /\ (steps_request = "done" /\ garmin.daily_steps_data = Raises) =>
                /\ GetAttr(LastRecord, "steps") = JNull
                /\ \A a \in DOMAIN LastRecord.v \ {"steps"} :
                      GetAttr(LastRecord, a) = GetAttr(WithFallbackSteps, a)

\* a day whose summary came without the steps and whose fallback request
\* failed has been appended, with other fields set
StepsFallbackWitness ==
    /\ pc \in {"launch", "done"}
    /\ metrics_to_write.v # << >>
    /\ garmin.summary = SummaryPayload(FALSE, TRUE)
    /\ steps_request = "done"
    /\ garmin.daily_steps_data = Raises
    /\ GetAttr(LastRecord, "steps") = JNull
    /\ GetAttr(LastRecord, "resting_heart_rate") = JNum(52)

----------------------------------------------------------------------------
(* C28 *)

\* a request of get_metrics is under way
InFlight ==
    \/ \E r \in SectionRequests : gathered[r] = "in flight"
    \/ steps_request = "in flight"

\* the records appended are those of the days before current_date, in order
AppendedInOrder ==
    /\ Len(metrics_to_write.v) = current_date.v - start_date.v
    /\ \A i \in 1..Len(metrics_to_write.v) :
          GetAttr(metrics_to_write.v[i], "date") = JDate(start_date.v + i - 1)

FetchOrderingStep ==
    \* the requests of a day are sent together, when no request of an earlier
    \* day is under way and the record of every earlier day is appended
    /\ (\E r \in SectionRequests : gathered[r] # "in flight" /\ gathered'[r] = "in flight") =>
          /\ \A r \in SectionRequests : gathered'[r] = "in flight"
          /\ ~InFlight
          /\ AppendedInOrder
    \* the extraction, which sends the fallback request or appends the record,
    \* starts when each request of the day has returned or failed
    /\ (steps_request # "in flight" /\ steps_request' = "in flight") =>
          \A r \in SectionRequests : gathered[r] = "done"
    /\ metrics_to_write' # metrics_to_write =>
          /\ \A r \in SectionRequests : gathered[r] = "done"
          /\ Len(metrics_to_write'.v) = Len(metrics_to_write.v) + 1
          /\ GetAttr(metrics_to_write'.v[Len(metrics_to_write'.v)], "date") = current_date
          /\ ~InFlight'
          /\ AppendedInOrder'

\* C28: the requests of a day are launched together and the extraction of the
\* day's record starts only after each of them has completed or failed; no
\* request of a day is issued before the record of the day before has been
\* extracted and appended
FetchOrdering == [][FetchOrderingStep]_vars

\* the second day: its requests are under way, some have returned, and the
\* record of the first day is appended
FetchOrderingWitness ==
    /\ pc = "gather"
    /\ current_date = JDate(2)
    /\ Len(metrics_to_write.v) = 1
    /\ gathered["summary"] = "done"
    /\ gathered["activities"] = "in flight"

----------------------------------------------------------------------------
(* C29 *)

\* the isoformat dates of the records of the list update_csv was called with
DatesOfCall(list) ==
    IF list = JNull THEN {}
    ELSE {IsoFormat(GetAttr(list.v[i], "date")) : i \in 1..Len(list.v)}

\* the file holds a line per date at most
OneLinePerDate(file) ==
    \A i, j \in 2..Len(file.rows) : file.rows[i][1] = file.rows[j][1] => i = j

DriveKeepsRowsStep ==
    (drive_file.t = "file" /\ OneLinePerDate(drive_file)) =>
        /\ drive_file'.t = "file"
        /\ \A i \in 2..Len(drive_file.rows) :
              drive_file.rows[i][1] \notin DatesOfCall(metrics_list') =>
                  \E j \in 2..Len(drive_file'.rows) : drive_file'.rows[j] = drive_file.rows[i]

\* C29: a call of update_csv on a file with a line per date, also a call in
\* which the download or the parsing of the existing file fails, leaves in the
\* file every line it held for a date that is not among those of the call
DriveKeepsRows == [][DriveKeepsRowsStep]_vars

----------------------------------------------------------------------------
(* C30 *)

\* the months of the calendar counted from month 1 of year 0
MonthNumber(month) == 12 * month[1] + month[2] - 1
MonthOfNumber(n) == <<n \div 12, (n % 12) + 1>>

\* every month from first to last, once each and in ascending order; none
\* when last comes before first
CalendarMonths(first, last) ==
    [i \in 1..(MonthNumber(last) - MonthNumber(first) + 1) |->
        MonthOfNumber(MonthNumber(first) + i - 1)]

\* the run has a start month, and arguments that parse
RangeGiven ==
    /\ Truthy(month_args.start_month)
    /\ monthly_pc # "start"
    /\ monthly_pc # "exit 1" \/ months_to_process # << >>

\* C30: the enumeration of cli_monthly_sync ends with every calendar month
\* from the start month to the end month, once each and in ascending order,
\* December followed by January of the next year; with the start month alone
\* when no end month is given, with no month when the end month comes before
\* the start month; on its way it holds the first of these months and goes no
\* further; each month processed adds one record to metrics_buffer at most
MonthEnumeration ==
    /\ RangeGiven =>
          LET first == ParseMonth(month_args.start_month.v)
              last == IF month_args.end_month = JNull THEN first
                      ELSE ParseMonth(month_args.end_month.v)
              months == CalendarMonths(first, last)
          IN  /\ Len(months_to_process) <= Len(months)
              /\ months_to_process = SubSeq(months, 1, Len(months_to_process))
              /\ monthly_pc # "enumerate" => months_to_process = months
              /\ (monthly_pc # "enumerate" /\ month_args.end_month = JNull) =>
                    months_to_process = <<first>>
              /\ MonthNumber(last) < MonthNumber(first) => months_to_process = << >>
    /\ month_index <= Len(months_to_process)
    /\ Len(metrics_buffer) <= month_index

\* the months from November 2023 to February 2024 have been enumerated and
\* processed, and some of them have given a record, some none
MonthEnumerationWitness ==
    /\ monthly_pc = "write"
    /\ months_to_process = <<<<2023, 11>>, <<2023, 12>>, <<2024, 1>>, <<2024, 2>>>>
    /\ month_index = 4
    /\ Len(metrics_buffer) = 2

============================================================================
